---- MODULE Spec2Model ----
(***************************************************************************)
(* Build graph and build strategies of samcli.lib.build.                   *)
(*                                                                         *)
(* The state is one BuildGraph object (its two definition lists), the     *)
(* build.toml document next to the build directory, the cache directory   *)
(* of the cached build strategy and the source trees' checksums.          *)
(* Python's None is kept apart from every other value: a dict argument    *)
(* that may be None is a record with an isNone flag, a string that may be *)
(* None uses the marker NoneValue.                                         *)
(***************************************************************************)
EXTENDS Integers, Sequences, FiniteSets, TLC

\* ------------------------------------------------------------------------
\* Bounds of the exploration
\* ------------------------------------------------------------------------
MaxPuts == 2   \* put calls over all graph objects
MaxRuns == 2   \* graph objects constructed

\* ------------------------------------------------------------------------
\* Values
\* ------------------------------------------------------------------------
NoneValue == "None"

Runtimes == {"python3.8", "nodejs12.x"}
CodeUris == {"src/a", "src/b"}
Hashes == {"h1", "h2"}

\* metadata arguments: None, {}, a non-makefile dict, a makefile dict
NoneMetadata == [isNone |-> TRUE, items |-> {}]
EmptyMetadata == [isNone |-> FALSE, items |-> {}]
EsbuildMetadata == [isNone |-> FALSE, items |-> {<<"BuildMethod", "esbuild">>}]
MakefileMetadata == [isNone |-> FALSE, items |-> {<<"BuildMethod", "makefile">>}]
Metadatas == {NoneMetadata, EmptyMetadata, EsbuildMetadata, MakefileMetadata}

\* the function units of the template (name, functionname, handler)
Functions ==
    {[name |-> "F1", functionname |-> "fn-one", handler |-> "app.one"],
     [name |-> "F2", functionname |-> "fn-two", handler |-> "app.two"]}

\* the layer units of the template; NoLayer is the None of LayerBuildDefinition.layer
NoLayer ==
    [isNone |-> TRUE, name |-> NoneValue, codeuri |-> NoneValue, build_method |-> NoneValue,
     compatible_runtimes |-> <<>>]
Layers ==
    {[isNone |-> FALSE, name |-> "L1", codeuri |-> "layers/one", build_method |-> "python3.8",
      compatible_runtimes |-> <<"python3.8", "python3.7">>],
     [isNone |-> FALSE, name |-> "L2", codeuri |-> "layers/two", build_method |-> NoneValue,
      compatible_runtimes |-> <<>>]}

LayerNames == {"L1", "L2"}
BuildMethods == {"python3.8", "nodejs12.x"}
CompatibleRuntimes == {<<>>, <<"python3.8">>}

\* the arguments a definition is constructed from: one base combination and every
\* combination that differs from it in one argument
FunctionKeys ==
    {k \in [runtime : Runtimes, codeuri : CodeUris, metadata : Metadatas] :
        Cardinality({f \in {"runtime", "codeuri", "metadata"} :
            k[f] # [runtime |-> "python3.8", codeuri |-> "src/a", metadata |-> EmptyMetadata][f]}) <= 1}

LayerKeys ==
    {k \in [name : LayerNames, codeuri : CodeUris, build_method : BuildMethods,
            compatible_runtimes : CompatibleRuntimes] :
        Cardinality({f \in {"name", "codeuri", "build_method", "compatible_runtimes"} :
            k[f] # [name |-> "L1", codeuri |-> "src/a", build_method |-> "python3.8",
                    compatible_runtimes |-> <<>>][f]}) <= 1}

\* ------------------------------------------------------------------------
\* Python helpers
\* ------------------------------------------------------------------------
\* dict.get(key, default) on a dict kept as a set of <<key, value>> pairs
DictGet(d, k, default) ==
    IF \E p \in d : p[1] = k THEN (CHOOSE p \in d : p[1] = k)[2] ELSE default

\* the elements of a sequence
Range(s) == {s[i] : i \in 1..Len(s)}

\* [f(x) for x in s]
RECURSIVE MapUuid(_)
MapUuid(s) == IF s = <<>> THEN <<>> ELSE <<Head(s).uuid>> \o MapUuid(Tail(s))

\* ------------------------------------------------------------------------
\* Build definitions
\* ------------------------------------------------------------------------
\* FunctionBuildDefinition.__init__; uuid is the value uuid4() returned
FunctionBuildDefinition(runtime, codeuri, metadata, source_md5, uuid) ==
    [uuid |-> uuid,
     source_md5 |-> source_md5,
     runtime |-> runtime,
     codeuri |-> codeuri,
     metadata |-> IF ~metadata.isNone /\ metadata.items # {} THEN metadata.items ELSE {},
     functions |-> <<>>]

\* LayerBuildDefinition.__init__
LayerBuildDefinition(name, codeuri, build_method, compatible_runtimes, source_md5, uuid) ==
    [uuid |-> uuid,
     source_md5 |-> source_md5,
     name |-> name,
     codeuri |-> codeuri,
     build_method |-> build_method,
     compatible_runtimes |-> compatible_runtimes,
     layer |-> NoLayer]

\* __eq__ that does not compare the codeuri
FunctionBuildDefinition__eq__IgnoringCodeuri(self, other) ==
    IF self.metadata # {} /\ DictGet(self.metadata, "BuildMethod", NoneValue) = "makefile"
    THEN FALSE
    ELSE /\ self.runtime = other.runtime
         /\ self.metadata = other.metadata

\* __eq__ without the makefile branch
FunctionBuildDefinition__eq__WithoutMakefile(self, other) ==
    /\ self.runtime = other.runtime
    /\ self.codeuri = other.codeuri
    /\ self.metadata = other.metadata

\* FunctionBuildDefinition.__eq__(self, other)
FunctionBuildDefinition__eq__(self, other) ==
    IF self.metadata # {} /\ DictGet(self.metadata, "BuildMethod", NoneValue) = "makefile"
    THEN FALSE
    ELSE /\ self.runtime = other.runtime
         /\ self.codeuri = other.codeuri
         /\ self.metadata = other.metadata

\* __eq__ that also compares the checksum
LayerBuildDefinition__eq__WithSourceMd5(self, other) ==
    /\ self.name = other.name
    /\ self.codeuri = other.codeuri
    /\ self.build_method = other.build_method
    /\ self.compatible_runtimes = other.compatible_runtimes
    /\ self.source_md5 = other.source_md5

\* LayerBuildDefinition.__eq__(self, other)
LayerBuildDefinition__eq__(self, other) ==
    /\ self.name = other.name
    /\ self.codeuri = other.codeuri
    /\ self.build_method = other.build_method
    /\ self.compatible_runtimes = other.compatible_runtimes

\* self._function_build_definitions.index(x) when x is in the list, 0 when it is not: the
\* first position whose item equals x, item == x calling the item's __eq__
FunctionIndex(defs, x) ==
    IF \E i \in 1..Len(defs) : FunctionBuildDefinition__eq__(defs[i], x)
    THEN CHOOSE i \in 1..Len(defs) :
             /\ FunctionBuildDefinition__eq__(defs[i], x)
             /\ \A j \in 1..(i - 1) : ~FunctionBuildDefinition__eq__(defs[j], x)
    ELSE 0

\* self._layer_build_definitions.index(x) when x is in the list, 0 when it is not
LayerIndex(defs, x) ==
    IF \E i \in 1..Len(defs) : LayerBuildDefinition__eq__(defs[i], x)
    THEN CHOOSE i \in 1..Len(defs) :
             /\ LayerBuildDefinition__eq__(defs[i], x)
             /\ \A j \in 1..(i - 1) : ~LayerBuildDefinition__eq__(defs[j], x)
    ELSE 0

\* FunctionBuildDefinition.add_function
add_function(def, function) == [def EXCEPT !.functions = Append(@, function)]

\* AbstractBuildDefinition.set_source_md5
set_source_md5(def, new_source_md5) == [def EXCEPT !.source_md5 = new_source_md5]

\* ------------------------------------------------------------------------
\* build.toml
\* ------------------------------------------------------------------------
NoDocument == [exists |-> FALSE, function_build_definitions |-> <<>>, layer_build_definitions |-> <<>>]

_function_build_definition_to_toml_table(d) ==
    LET base == [codeuri |-> d.codeuri,
                 runtime |-> d.runtime,
                 source_md5 |-> d.source_md5,
                 functions |-> [i \in 1..Len(d.functions) |-> d.functions[i].functionname]]
    IN  IF d.metadata # {}
        THEN [codeuri |-> base.codeuri, runtime |-> base.runtime, source_md5 |-> base.source_md5,
              functions |-> base.functions, metadata |-> d.metadata]
        ELSE base

\* a conversion that does not read source_md5 back
_toml_table_to_function_build_definition_WithoutMd5(uuid, toml_table) ==
    FunctionBuildDefinition(
        toml_table.runtime,
        toml_table.codeuri,
        [isNone |-> FALSE,
         items |-> IF "metadata" \in DOMAIN toml_table THEN toml_table.metadata ELSE {}],
        "",
        uuid)

_toml_table_to_function_build_definition(uuid, toml_table) ==
    FunctionBuildDefinition(
        toml_table.runtime,
        toml_table.codeuri,
        [isNone |-> FALSE,
         items |-> IF "metadata" \in DOMAIN toml_table THEN toml_table.metadata ELSE {}],
        IF "source_md5" \in DOMAIN toml_table THEN toml_table.source_md5 ELSE "",
        uuid)

_layer_build_definition_to_toml_table(d) ==
    [layer_name |-> d.name,
     codeuri |-> d.codeuri,
     build_method |-> d.build_method,
     compatible_runtimes |-> d.compatible_runtimes,
     source_md5 |-> d.source_md5,
     layer |-> d.layer.name]

_toml_table_to_layer_build_definition(uuid, toml_table) ==
    LayerBuildDefinition(
        toml_table.layer_name,
        toml_table.codeuri,
        toml_table.build_method,
        toml_table.compatible_runtimes,
        IF "source_md5" \in DOMAIN toml_table THEN toml_table.source_md5 ELSE "",
        uuid)

\* the tables BuildGraph._write builds: one entry per definition, keyed by its uuid
RECURSIVE FunctionTables(_)
FunctionTables(defs) ==
    IF defs = <<>> THEN <<>>
    ELSE <<[key |-> Head(defs).uuid, table |-> _function_build_definition_to_toml_table(Head(defs))]>>
         \o FunctionTables(Tail(defs))

RECURSIVE LayerTables(_)
LayerTables(defs) ==
    IF defs = <<>> THEN <<>>
    ELSE <<[key |-> Head(defs).uuid, table |-> _layer_build_definition_to_toml_table(Head(defs))]>>
         \o LayerTables(Tail(defs))

\* the document BuildGraph._write leaves on disk
_write(fs, ls) ==
    [exists |-> TRUE,
     function_build_definitions |-> FunctionTables(fs),
     layer_build_definitions |-> LayerTables(ls)]

\* the definition lists BuildGraph._read builds from the document
RECURSIVE ReadFunctions(_)
ReadFunctions(entries) ==
    IF entries = <<>> THEN <<>>
    ELSE <<_toml_table_to_function_build_definition(Head(entries).key, Head(entries).table)>>
         \o ReadFunctions(Tail(entries))

RECURSIVE ReadLayers(_)
ReadLayers(entries) ==
    IF entries = <<>> THEN <<>>
    ELSE <<_toml_table_to_layer_build_definition(Head(entries).key, Head(entries).table)>>
         \o ReadLayers(Tail(entries))

\* ------------------------------------------------------------------------
\* State
\* ------------------------------------------------------------------------
VARIABLES
    fdefs,      \* BuildGraph._function_build_definitions
    ldefs,      \* BuildGraph._layer_build_definitions
    doc,        \* the build.toml document on disk
    nextUuid,   \* the next value uuid4() returns
    cache,      \* the cache directory: directory name (a uuid) -> the content copied into it
    srcHash,    \* dir_checksum of each source directory, by codeuri
    pc,         \* where the running build() call is; "idle" between calls
    idx,        \* the position in the definition tuple build() iterates
    result,     \* the mapping build() has collected
    exc,        \* the exception in flight in build()
    scoped,     \* is_building_specific_resource of the delegate of the running build()
    puts,       \* put calls made so far
    runs,       \* graph objects constructed so far
    builds,     \* build() calls started so far
    lastOp,     \* the last operation and its arguments
    putLog,     \* the (definition arguments, unit) pairs put on the current graph object
    restored,   \* the uuids the current graph object read from the document
    written,    \* the definition lists at the last _write
    snapshot,   \* the last value a get_*_build_definitions call returned
    visited,    \* by uuid, the last single-definition build the cached strategy ran on the
                \* current graph object
    calls,      \* the build_function and build_layer callback invocations of the running or
                \* last build() call
    artifacts,  \* the build directory: output directory -> the build output copied into it
    tasks,      \* the tasks the running or last parallel build() has handed to the scheduler
    events,     \* what the running or last build() did, in order: the strategies it entered
                \* and left, the single-definition builds it made, the tasks it handed to
                \* the scheduler and awaited, the writes of build.toml
    infra,      \* the running or last InfraSyncExecutor.execute_infra_sync() call: where it
                \* stands, the context calls it made, the templates it compares, what it
                \* returned
    versionCheck, \* the running or last call of a command wrapped by check_newer_version
    samconfig   \* an AbstractSamConfig object (_document), its file, and its last call

graphVars == <<fdefs, ldefs, doc, nextUuid>>
envVars == <<cache, srcHash>>
buildVars == <<pc, idx, result, exc, scoped>>
histVars == <<puts, runs, builds, lastOp, putLog, restored, written, snapshot, visited>>
outVars == <<calls, artifacts>>
parVars == <<tasks, events>>
toolVars == <<infra, versionCheck, samconfig>>
buildSide == <<graphVars, envVars, buildVars, histVars, outVars, parVars>>
vars == <<buildSide, toolVars>>

\* no execute_infra_sync() call, no wrapped command and no samconfig object yet
NoInfraSync == [pc |-> "none"]
NoVersionCheck == [pc |-> "none"]
NoSamConfig == [pc |-> "none"]

NoSnapshot == [taken |-> FALSE, kind |-> "", alias |-> FALSE, items |-> <<>>]
NothingWritten == [done |-> FALSE, fdefs |-> <<>>, ldefs |-> <<>>]

\* uuid4(): a value no definition, document entry or cache directory carries
Uuid(n) == n

\* ------------------------------------------------------------------------
\* BuildGraph operations
\* ------------------------------------------------------------------------
\* a build.toml whose text tomlkit.loads cannot parse
UnparseableDocument ==
    [exists |-> TRUE, unparseable |-> TRUE,
     function_build_definitions |-> <<>>, layer_build_definitions |-> <<>>]

\* a build.toml that parses and holds a function table without its runtime key
IncompleteDocument ==
    [exists |-> TRUE,
     function_build_definitions |->
         <<[key |-> 0, table |-> [codeuri |-> "src/a", source_md5 |-> "", functions |-> <<>>]]>>,
     layer_build_definitions |-> <<>>]

\* the exception reading and converting the document raises: read_text raises an OSError
\* when the file is missing, tomlkit.loads a ParseError on a text that is not TOML, and
\* toml_table[FIELD] a KeyError when a table lacks a key the conversion indexes
ReadError(document) ==
    IF ~document.exists THEN "OSError"
    ELSE IF "unparseable" \in DOMAIN document THEN "ParseError"
    ELSE IF \/ \E i \in 1..Len(document.function_build_definitions) :
                  ~({"runtime", "codeuri"}
                        \subseteq DOMAIN document.function_build_definitions[i].table)
            \/ \E i \in 1..Len(document.layer_build_definitions) :
                  ~({"layer_name", "codeuri", "build_method", "compatible_runtimes"}
                        \subseteq DOMAIN document.layer_build_definitions[i].table)
    THEN "KeyError"
    ELSE "none"

\* a _read whose except clause catches every exception
_readCatchingException(document) ==
    IF ReadError(document) # "none"
    THEN [raised |-> "none", fdefs |-> <<>>, ldefs |-> <<>>]
    ELSE [raised |-> "none",
          fdefs |-> ReadFunctions(document.function_build_definitions),
          ldefs |-> ReadLayers(document.layer_build_definitions)]

\* BuildGraph._read: the two lists built from the document, empty when the file is missing
\* (except OSError), and the exception that leaves _read otherwise
_read(document) ==
    IF ReadError(document) = "OSError"
    THEN [raised |-> "none", fdefs |-> <<>>, ldefs |-> <<>>]
    ELSE IF ReadError(document) # "none"
    THEN [raised |-> ReadError(document), fdefs |-> <<>>, ldefs |-> <<>>]
    ELSE [raised |-> "none",
          fdefs |-> ReadFunctions(document.function_build_definitions),
          ldefs |-> ReadLayers(document.layer_build_definitions)]

\* BuildGraph.__init__: a new graph object for the next run; when _read raises, no object
\* is constructed and the caller is left with the one it had
BuildGraph__init__ ==
    /\ pc = "idle"
    /\ runs < MaxRuns
    /\ runs' = runs + 1
    /\ lastOp' = [op |-> "__init__", raised |-> _read(doc).raised]
    /\ IF _read(doc).raised = "none"
       THEN /\ fdefs' = _read(doc).fdefs
            /\ ldefs' = _read(doc).ldefs
            /\ restored' = Range(MapUuid(fdefs')) \cup Range(MapUuid(ldefs'))
            /\ putLog' = {}
            /\ visited' = <<>>
            /\ snapshot' = NoSnapshot
       ELSE UNCHANGED <<fdefs, ldefs, restored, putLog, visited, snapshot>>
    /\ UNCHANGED <<parVars, outVars, doc, nextUuid, envVars, buildVars, toolVars, puts, builds, written>>

\* a put that keeps the new definition in place of the one it equals
PutFunctionListReplacing(defs, function_build_definition, function) ==
    LET i == FunctionIndex(defs, function_build_definition)
    IN  IF i # 0
        THEN [defs EXCEPT ![i] = add_function(
                 [function_build_definition EXCEPT !.functions = defs[i].functions], function)]
        ELSE Append(defs, add_function(function_build_definition, function))

\* a put that gives the definition it finds the identifier of the new one
PutFunctionListRenaming(defs, function_build_definition, function) ==
    LET i == FunctionIndex(defs, function_build_definition)
    IN  IF i # 0
        THEN [defs EXCEPT ![i] = add_function([@ EXCEPT !.uuid = function_build_definition.uuid],
                                              function)]
        ELSE Append(defs, add_function(function_build_definition, function))

\* a put that adds the function to the definition it finds and appends the new one too
PutFunctionListAddingBoth(defs, function_build_definition, function) ==
    LET i == FunctionIndex(defs, function_build_definition)
    IN  IF i # 0
        THEN Append([defs EXCEPT ![i] = add_function(@, function)],
                    add_function(function_build_definition, function))
        ELSE Append(defs, add_function(function_build_definition, function))

\* the list after put_function_build_definition(function_build_definition, function)
PutFunctionList(defs, function_build_definition, function) ==
    LET i == FunctionIndex(defs, function_build_definition)
    IN  IF i # 0
        THEN [defs EXCEPT ![i] = add_function(@, function)]
        ELSE Append(defs, add_function(function_build_definition, function))

\* put_function_build_definition(FunctionBuildDefinition(runtime, codeuri, metadata), function)
PutFunction(key, function) ==
    /\ pc = "idle"
    /\ puts < MaxPuts
    /\ fdefs' = PutFunctionList(fdefs,
                    FunctionBuildDefinition(key.runtime, key.codeuri, key.metadata, "",
                                            Uuid(nextUuid)),
                    function)
    /\ nextUuid' = nextUuid + 1
    /\ puts' = puts + 1
    /\ putLog' = putLog \cup {[key |-> key, function |-> function]}
    /\ lastOp' = [op |-> "put_function", key |-> key, function |-> function]
    /\ UNCHANGED <<toolVars, parVars, outVars, ldefs, doc, envVars, buildVars, runs, builds, restored, written, snapshot,
                   visited>>

put_function_build_definition ==
    \E key \in FunctionKeys, function \in Functions : PutFunction(key, function)

\* the list after put_layer_build_definition(layer_build_definition, layer)
PutLayerList(defs, layer_build_definition, layer) ==
    LET i == LayerIndex(defs, layer_build_definition)
    IN  IF i # 0
        THEN [defs EXCEPT ![i].layer = layer]
        ELSE Append(defs, [layer_build_definition EXCEPT !.layer = layer])

\* put_layer_build_definition(LayerBuildDefinition(name, codeuri, build_method,
\* compatible_runtimes), layer)
PutLayer(key, layer) ==
    /\ pc = "idle"
    /\ puts < MaxPuts
    /\ ldefs' = PutLayerList(ldefs,
                    LayerBuildDefinition(key.name, key.codeuri, key.build_method,
                                         key.compatible_runtimes, "", Uuid(nextUuid)),
                    layer)
    /\ nextUuid' = nextUuid + 1
    /\ puts' = puts + 1
    /\ lastOp' = [op |-> "put_layer", key |-> key, layer |-> layer]
    /\ UNCHANGED <<toolVars, parVars, outVars, fdefs, doc, envVars, buildVars, runs, builds, putLog, restored, written,
                   snapshot, visited>>

put_layer_build_definition ==
    \E key \in LayerKeys, layer \in Layers : PutLayer(key, layer)

\* the lists clean_redundant_functions_and_update keeps
CleanFunctions(defs) == SelectSeq(defs, LAMBDA fbd : Len(fbd.functions) > 0)

\* a prune that keeps every layer definition
CleanLayersKeepingAll(defs) == defs

CleanLayers(defs) == SelectSeq(defs, LAMBDA bd : ~bd.layer.isNone)

\* a prune that writes the lists as they were before pruning
CleanWritingBeforePruning(persist) ==
    /\ pc = "idle"
    /\ fdefs' = CleanFunctions(fdefs)
    /\ ldefs' = CleanLayers(ldefs)
    /\ doc' = IF persist THEN _write(fdefs, ldefs) ELSE doc
    /\ written' = IF persist THEN [done |-> TRUE, fdefs |-> fdefs, ldefs |-> ldefs]
                  ELSE written
    /\ lastOp' = [op |-> "clean", persist |-> persist]
    /\ UNCHANGED <<parVars, outVars, nextUuid, envVars, buildVars, toolVars, puts, runs, builds, putLog, restored,
                   snapshot, visited>>

\* clean_redundant_functions_and_update(persist)
CleanLogged(persist, log) ==
    /\ pc = "idle"
    /\ fdefs' = CleanFunctions(fdefs)
    /\ ldefs' = CleanLayers(ldefs)
    /\ doc' = IF persist THEN _write(fdefs', ldefs') ELSE doc
    /\ written' = IF persist THEN [done |-> TRUE, fdefs |-> fdefs', ldefs |-> ldefs']
                  ELSE written
    /\ lastOp' = log
    /\ UNCHANGED <<parVars, outVars, nextUuid, envVars, buildVars, toolVars, puts, runs, builds, putLog, restored,
                   snapshot, visited>>

Clean(persist) == CleanLogged(persist, [op |-> "clean", persist |-> persist])

clean_redundant_functions_and_update == \E persist \in BOOLEAN : Clean(persist)

\* a getter that returns the graph's own list
TupleOfAlias(kind, defs) == [taken |-> TRUE, kind |-> kind, alias |-> TRUE, items |-> MapUuid(defs)]

\* tuple(list): a new object holding the list's items; alias tells whether the returned
\* object is the graph's own list
TupleOf(kind, defs) == [taken |-> TRUE, kind |-> kind, alias |-> FALSE, items |-> MapUuid(defs)]

get_function_build_definitions ==
    /\ pc = "idle"
    /\ snapshot' = TupleOf("function", fdefs)
    /\ snapshot' # snapshot
    /\ lastOp' = [op |-> "get_function"]
    /\ UNCHANGED <<parVars, outVars, graphVars, envVars, buildVars, toolVars, puts, runs, builds, putLog, restored, written,
                   visited>>

get_layer_build_definitions ==
    /\ pc = "idle"
    /\ snapshot' = TupleOf("layer", ldefs)
    /\ snapshot' # snapshot
    /\ lastOp' = [op |-> "get_layer"]
    /\ UNCHANGED <<parVars, outVars, graphVars, envVars, buildVars, toolVars, puts, runs, builds, putLog, restored, written,
                   visited>>

\* dir_checksum(code_dir): the checksum of the source tree a codeuri resolves to
dir_checksum(codeuri) == srcHash[codeuri]

\* a build of a layer definition of the graph ends: set_source_md5(dir_checksum(code_dir))
SetLayerSourceMd5 ==
    \E i \in 1..Len(ldefs) :
        /\ pc = "idle"
        /\ ldefs[i].source_md5 = ""
        /\ ldefs' = [ldefs EXCEPT ![i] = set_source_md5(@, dir_checksum(@.codeuri))]
        /\ lastOp' = [op |-> "set_source_md5"]
        /\ UNCHANGED <<parVars, outVars, fdefs, doc, nextUuid, envVars, buildVars, toolVars, puts, runs, builds, putLog,
                       restored, written, snapshot, visited>>

\* a build of a function definition of the graph ends: set_source_md5(dir_checksum(code_dir))
SetFunctionSourceMd5 ==
    \E i \in 1..Len(fdefs) :
        /\ pc = "idle"
        /\ fdefs[i].source_md5 = ""
        /\ fdefs' = [fdefs EXCEPT ![i] = set_source_md5(@, dir_checksum(@.codeuri))]
        /\ lastOp' = [op |-> "set_source_md5"]
        /\ UNCHANGED <<parVars, outVars, ldefs, doc, nextUuid, envVars, buildVars, toolVars, puts, runs, builds, putLog,
                       restored, written, snapshot, visited>>

\* what the object a getter returned holds now
SnapshotItems ==
    IF ~snapshot.alias THEN snapshot.items
    ELSE IF snapshot.kind = "function" THEN MapUuid(fdefs) ELSE MapUuid(ldefs)

\* ------------------------------------------------------------------------
\* The template's declarations and the source trees
\* ------------------------------------------------------------------------
\* the properties a declared function can have: a shared plain build and a makefile build
TemplateFunctionKeys ==
    {[runtime |-> "python3.8", codeuri |-> "src/a", metadata |-> EmptyMetadata],
     [runtime |-> "nodejs12.x", codeuri |-> "src/b", metadata |-> MakefileMetadata]}

TemplateLayerKeys ==
    {[name |-> "L1", codeuri |-> "src/a", build_method |-> "python3.8",
      compatible_runtimes |-> <<"python3.8">>],
     [name |-> "L2", codeuri |-> "src/b", build_method |-> "nodejs12.x",
      compatible_runtimes |-> <<>>]}

\* the caller replays the template before it builds, functions first: every declared unit is
\* put once on a graph object
DeclareFunction ==
    \E key \in TemplateFunctionKeys, function \in Functions :
        /\ DOMAIN visited = {}
        /\ \A j \in 1..Len(ldefs) : ldefs[j].layer.isNone
        /\ \A i \in 1..Len(fdefs) : function \notin Range(fdefs[i].functions)
        /\ PutFunction(key, function)

DeclareLayer ==
    \E key \in TemplateLayerKeys, layer \in Layers :
        /\ key.name = layer.name
        /\ DOMAIN visited = {}
        /\ \A i \in 1..Len(ldefs) : ldefs[i].layer # layer
        /\ PutLayer(key, layer)

\* the caller prunes the replayed graph and writes build.toml
PruneAndPersist == Clean(TRUE)

\* the same call, the lists of the write before it kept for comparison
PruneAndPersistAgain ==
    CleanLogged(TRUE, [op |-> "clean", persist |-> TRUE, was |-> written,
                       puts |-> [fdefs |-> fdefs, ldefs |-> ldefs]])

\* the source tree of a definition of the graph is edited between two build() calls: its
\* checksum becomes one it did not have before
ChangeSource ==
    \E codeuri \in CodeUris, h \in Hashes \ {"h1"} :
        /\ pc = "idle"
        /\ DOMAIN visited # {}
        /\ \/ \E i \in 1..Len(fdefs) : fdefs[i].codeuri = codeuri
           \/ \E i \in 1..Len(ldefs) : ldefs[i].codeuri = codeuri
        /\ srcHash[codeuri] # h
        /\ srcHash' = [srcHash EXCEPT ![codeuri] = h]
        /\ lastOp' = [op |-> "change_source", codeuri |-> codeuri]
        /\ UNCHANGED <<parVars, outVars, graphVars, cache, buildVars, toolVars, puts, runs, builds, putLog, restored,
                       written, snapshot, visited>>

\* build.toml is deleted between two runs
RemoveDocument ==
    /\ pc = "idle"
    /\ doc.exists
    /\ doc' = NoDocument
    /\ written' = NothingWritten
    /\ lastOp' = [op |-> "remove_document"]
    /\ UNCHANGED <<parVars, outVars, fdefs, ldefs, nextUuid, envVars, buildVars, toolVars, puts, runs, builds, putLog,
                   restored, snapshot, visited>>

\* build.toml is overwritten between two runs with a text that is not what _write leaves
CorruptDocument ==
    \E document \in {UnparseableDocument, IncompleteDocument} :
        /\ pc = "idle"
        /\ doc # document
        /\ doc' = document
        /\ written' = NothingWritten
        /\ lastOp' = [op |-> "corrupt_document"]
        /\ UNCHANGED <<parVars, outVars, fdefs, ldefs, nextUuid, envVars, buildVars, toolVars, puts, runs, builds, putLog,
                       restored, snapshot, visited>>

\* ------------------------------------------------------------------------
\* Build strategies
\* ------------------------------------------------------------------------
MaxBuilds == 2   \* build() calls started

BuildDir == "build_dir"

\* an assignment of other in place of the update
DictReplace(d, other) == other

\* dict.update(other) on dicts kept as sets of <<key, value>> pairs
DictUpdate(d, other) == {p \in d : \A q \in other : q[1] # p[1]} \cup other

\* what the build callback builds for a definition: the output for that definition from
\* the source tree as it is, told by its checksum
BuildOutput(definition) == [uuid |-> definition.uuid, hash |-> dir_checksum(definition.codeuri)]

\* the invocation self._build_function(get_function_name(), codeuri, runtime,
\* get_handler_name(), temporary_build_dir, metadata); definition and output tell which
\* definition it is made for and what it leaves in temporary_build_dir
FunctionCall(build_definition, function) ==
    [callback |-> "build_function",
     definition |-> build_definition.uuid,
     name |-> function.name,
     codeuri |-> build_definition.codeuri,
     runtime |-> build_definition.runtime,
     handler |-> function.handler,
     metadata |-> build_definition.metadata,
     output |-> BuildOutput(build_definition)]

\* the invocation self._build_layer(layer.name, layer.codeuri, layer.build_method,
\* layer.compatible_runtimes)
LayerCall(layer_definition) ==
    [callback |-> "build_layer",
     definition |-> layer_definition.uuid,
     name |-> layer_definition.layer.name,
     codeuri |-> layer_definition.layer.codeuri,
     build_method |-> layer_definition.layer.build_method,
     compatible_runtimes |-> layer_definition.layer.compatible_runtimes,
     output |-> BuildOutput(layer_definition)]

\* the output directory of a unit: pathlib.Path(self._build_dir, name)
ArtifactsDir(name) == <<BuildDir, name>>

\* a copy to the first unit only
CopyToFirstUnit(functions, content) ==
    IF functions = <<>> THEN <<>>
    ELSE [path \in {ArtifactsDir(functions[1].name)} |-> content]

\* the directories copytree(source, artifacts_dir) fills for every unit of functions
CopyToUnits(functions, content) ==
    [path \in {ArtifactsDir(function.name) : function \in Range(functions)} |-> content]

\* the build directory after the copies
ArtifactsCopy(dirs, copies) ==
    [path \in (DOMAIN dirs) \cup (DOMAIN copies) |->
        IF path \in DOMAIN copies THEN copies[path] ELSE dirs[path]]

\* a build that copies the output to the first unit only
DefaultBuildSingleFunctionFirstUnitOnly(build_definition, ok) ==
    IF build_definition.functions = <<>>
    THEN [exc |-> "InvalidBuildGraphException", result |-> {}, called |-> <<>>, copies |-> <<>>]
    ELSE IF ~ok
    THEN [exc |-> "BuildFunctionError", result |-> {},
          called |-> <<FunctionCall(build_definition, build_definition.functions[1])>>,
          copies |-> <<>>]
    ELSE [exc |-> "none",
          result |-> {<<build_definition.functions[1].name,
                        ArtifactsDir(build_definition.functions[1].name)>>},
          called |-> <<FunctionCall(build_definition, build_definition.functions[1])>>,
          copies |-> CopyToUnits(<<build_definition.functions[1]>>,
                                 BuildOutput(build_definition))]

\* a build that invokes the callback for every unit
DefaultBuildSingleFunctionPerUnit(build_definition, ok) ==
    IF build_definition.functions = <<>>
    THEN [exc |-> "InvalidBuildGraphException", result |-> {}, called |-> <<>>, copies |-> <<>>]
    ELSE IF ~ok
    THEN [exc |-> "BuildFunctionError", result |-> {},
          called |-> <<FunctionCall(build_definition, build_definition.functions[1])>>,
          copies |-> <<>>]
    ELSE [exc |-> "none",
          result |-> {<<function.name, ArtifactsDir(function.name)>> :
                        function \in Range(build_definition.functions)},
          called |-> [i \in 1..Len(build_definition.functions) |->
                         FunctionCall(build_definition, build_definition.functions[i])],
          copies |-> CopyToUnits(build_definition.functions, BuildOutput(build_definition))]

\* a build that does not validate the unit list and goes on without a unit to name
DefaultBuildSingleFunctionWithoutValidation(build_definition, ok) ==
    IF ~ok
    THEN [exc |-> "BuildFunctionError", result |-> {},
          called |-> <<FunctionCall(build_definition,
                                    [name |-> NoneValue, handler |-> NoneValue])>>,
          copies |-> <<>>]
    ELSE [exc |-> "none",
          result |-> {<<function.name, ArtifactsDir(function.name)>> :
                        function \in Range(build_definition.functions)},
          called |-> <<FunctionCall(build_definition,
                                    [name |-> NoneValue, handler |-> NoneValue])>>,
          copies |-> CopyToUnits(build_definition.functions, BuildOutput(build_definition))]

\* DefaultBuildStrategy.build_single_function_definition; ok tells whether the
\* build_function callback returns or raises. get_function_name() raises before the
\* callback is invoked when the definition has no unit.
DefaultBuildSingleFunction(build_definition, ok) ==
    IF build_definition.functions = <<>>
    THEN [exc |-> "InvalidBuildGraphException", result |-> {}, called |-> <<>>, copies |-> <<>>]
    ELSE IF ~ok
    THEN [exc |-> "BuildFunctionError", result |-> {},
          called |-> <<FunctionCall(build_definition, build_definition.functions[1])>>,
          copies |-> <<>>]
    ELSE [exc |-> "none",
          result |-> {<<function.name, ArtifactsDir(function.name)>> :
                        function \in Range(build_definition.functions)},
          called |-> <<FunctionCall(build_definition, build_definition.functions[1])>>,
          copies |-> CopyToUnits(build_definition.functions, BuildOutput(build_definition))]

\* a build that does not test the build method
DefaultBuildSingleLayerWithoutBuildMethodTest(layer_definition, ok) ==
    LET layer == layer_definition.layer
    IN  IF layer.isNone
        THEN [exc |-> "AttributeError", result |-> {}, called |-> <<>>, message |-> ""]
        ELSE IF ~ok
        THEN [exc |-> "BuildLayerError", result |-> {}, called |-> <<LayerCall(layer_definition)>>,
              message |-> ""]
        ELSE [exc |-> "none", result |-> {<<layer.name, ArtifactsDir(layer.name)>>},
              called |-> <<LayerCall(layer_definition)>>,
              message |-> ""]

\* DefaultBuildStrategy.build_single_layer_definition; ok tells whether the build_layer
\* callback returns or raises. The location the callback returns is the layer's output
\* directory; message is the layer name the MissingBuildMethodException text holds.
DefaultBuildSingleLayer(layer_definition, ok) ==
    LET layer == layer_definition.layer
    IN  IF layer.isNone
        THEN [exc |-> "AttributeError", result |-> {}, called |-> <<>>, message |-> ""]
        ELSE IF layer.build_method = NoneValue
        THEN [exc |-> "MissingBuildMethodException", result |-> {}, called |-> <<>>,
              message |-> layer.name]
        ELSE IF ~ok
        THEN [exc |-> "BuildLayerError", result |-> {}, called |-> <<LayerCall(layer_definition)>>,
              message |-> ""]
        ELSE [exc |-> "none", result |-> {<<layer.name, ArtifactsDir(layer.name)>>},
              called |-> <<LayerCall(layer_definition)>>,
              message |-> ""]

\* the cache directory tree after copytree(artifact, cache_dir / uuid)
CacheCopy(dirs, uuid, content) ==
    [u \in (DOMAIN dirs) \cup {uuid} |-> IF u = uuid THEN content ELSE dirs[u]]

\* the cache directory tree after rmtree(cache_dir / uuid)
CacheRemove(dirs, uuid) == [u \in (DOMAIN dirs) \ {uuid} |-> dirs[u]]

\* a validity test that looks at the cache directory only
CacheInvalidDirectoryOnly(dirs, definition, source_md5) == definition.uuid \notin DOMAIN dirs

\* not cache_function_dir.exists() or build_definition.get_source_md5() != source_md5
CacheInvalid(dirs, definition, source_md5) ==
    definition.uuid \notin DOMAIN dirs \/ definition.source_md5 # source_md5

\* an invalid-cache branch that leaves a cache directory it finds as it is
CacheAfterBuildKeeping(dirs, uuid, build_result, content) ==
    IF uuid \in DOMAIN dirs THEN dirs
    ELSE IF build_result # {} THEN CacheCopy(dirs, uuid, content)
    ELSE dirs

\* the cache directory tree after the invalid-cache branch ran with build_result
CacheAfterBuild(dirs, uuid, build_result, content) ==
    IF build_result # {} THEN CacheCopy(dirs, uuid, content)
    ELSE IF uuid \in DOMAIN dirs THEN CacheRemove(dirs, uuid)
    ELSE dirs

\* one cache directory for every definition
CacheDirOfFirstDefinition(definition) == 1

\* cache_function_dir = pathlib.Path(self._cache_dir, build_definition.get_uuid())
CacheDir(definition) == definition.uuid

\* an invalid-cache branch that removes the cache directory before the delegate builds
CacheAfterFailedBuildRemoving(dirs, uuid) ==
    [u \in (DOMAIN dirs) \ {uuid} |-> dirs[u]]

\* the cache directory tree after the delegate's build raised: the exception leaves the
\* method before rmtree
CacheAfterFailedBuild(dirs, uuid) == dirs

\* the content of a directory that copytree left after it failed part-way
PartialCopy == "partial"

\* the cache directory tree after the invalid-cache branch removed the directory, stored the
\* checksum and copytree(value, cache_function_dir) failed part-way
CacheAfterFailedCopy(dirs, uuid) == CacheCopy(dirs, uuid, PartialCopy)

\* an exception that leaves the method without running __exit__
WithBlockAbandoned(exit) == "idle"

\* the with statement of BuildStrategy.build: an exception raised in the block goes to the
\* __exit__ of the strategy, as leaving the block at its end does; exit is where that
\* __exit__ runs
WithBlockLeft(exit) == exit

\* BuildStrategy._build_functions of the default strategy when every callback returns: the
\* mappings of the definitions, merged in graph order
RECURSIVE DefaultBuildFunctions(_)
DefaultBuildFunctions(definitions) ==
    IF definitions = <<>> THEN {}
    ELSE DictUpdate(DefaultBuildFunctions(SubSeq(definitions, 1, Len(definitions) - 1)),
                    DefaultBuildSingleFunction(definitions[Len(definitions)], TRUE).result)

\* BuildStrategy._build_layers of the default strategy when every callback returns
RECURSIVE DefaultBuildLayers(_)
DefaultBuildLayers(definitions) ==
    IF definitions = <<>> THEN {}
    ELSE DictUpdate(DefaultBuildLayers(SubSeq(definitions, 1, Len(definitions) - 1)),
                    DefaultBuildSingleLayer(definitions[Len(definitions)], TRUE).result)

\* the mapping BuildStrategy.build of the default strategy returns on a graph
DefaultBuildResult(fs, ls) == DictUpdate(DefaultBuildFunctions(fs), DefaultBuildLayers(ls))

\* DefaultBuildStrategy.build (BuildStrategy.build): enters the strategy, which does
\* nothing, and starts with the function definitions
DefaultBuildStrategy_build ==
    /\ pc = "idle"
    /\ builds < MaxBuilds
    /\ builds' = builds + 1
    /\ pc' = "default_functions"
    /\ idx' = 1
    /\ result' = {}
    /\ exc' = "none"
    /\ calls' = <<>>
    /\ events' = <<[event |-> "__enter__", of |-> "default"]>>
    /\ lastOp' = [op |-> "default_build_enter"]
    /\ UNCHANGED <<tasks, graphVars, envVars, scoped, toolVars, puts, runs, putLog, restored, written, snapshot,
                   visited, artifacts>>

\* BuildStrategy._build_functions calls build_single_function_definition on the next
\* function definition
DefaultBuildFunction ==
    \E ok \in BOOLEAN :
        LET build_definition == fdefs[idx]
            build == DefaultBuildSingleFunction(build_definition, ok)
        IN  /\ pc = "default_functions"
            /\ idx <= Len(fdefs)
            /\ calls' = calls \o build.called
            /\ artifacts' = ArtifactsCopy(artifacts, build.copies)
            /\ events' = Append(events, [event |-> "build_single_function_definition",
                                         of |-> "default", uuid |-> build_definition.uuid,
                                         raised |-> build.exc])
            /\ lastOp' = [op |-> "default_single_function", uuid |-> build_definition.uuid,
                          functions |-> build_definition.functions,
                          raised |-> build.exc, result |-> build.result]
            /\ IF build.exc # "none"
               THEN /\ exc' = build.exc
                    /\ pc' = WithBlockLeft("default_exit")
                    /\ UNCHANGED <<idx, result>>
               ELSE /\ result' = DictUpdate(result, build.result)
                    /\ idx' = idx + 1
                    /\ UNCHANGED <<pc, exc>>
            /\ UNCHANGED <<tasks, graphVars, envVars, scoped, toolVars, puts, runs, builds, putLog, restored,
                           written, snapshot, visited>>

\* BuildStrategy._build_functions returns; _build_layers starts
DefaultFunctionsReturn ==
    /\ pc = "default_functions"
    /\ idx > Len(fdefs)
    /\ pc' = "default_layers"
    /\ idx' = 1
    /\ lastOp' = [op |-> "default_functions_return"]
    /\ UNCHANGED <<parVars, outVars, graphVars, envVars, result, exc, scoped, toolVars, puts, runs, builds, putLog,
                   restored, written, snapshot, visited>>

\* BuildStrategy._build_layers calls build_single_layer_definition on the next layer
\* definition
DefaultBuildLayer ==
    \E ok \in BOOLEAN :
        LET layer_definition == ldefs[idx]
            build == DefaultBuildSingleLayer(layer_definition, ok)
        IN  /\ pc = "default_layers"
            /\ idx <= Len(ldefs)
            /\ calls' = calls \o build.called
            /\ events' = Append(events, [event |-> "build_single_layer_definition",
                                         of |-> "default", uuid |-> layer_definition.uuid,
                                         raised |-> build.exc])
            /\ lastOp' = [op |-> "default_single_layer", uuid |-> layer_definition.uuid,
                          layer |-> layer_definition.layer,
                          raised |-> build.exc, message |-> build.message,
                          result |-> build.result]
            /\ IF build.exc # "none"
               THEN /\ exc' = build.exc
                    /\ pc' = WithBlockLeft("default_exit")
                    /\ UNCHANGED <<idx, result>>
               ELSE /\ result' = DictUpdate(result, build.result)
                    /\ idx' = idx + 1
                    /\ UNCHANGED <<pc, exc>>
            /\ UNCHANGED <<tasks, graphVars, envVars, scoped, toolVars, puts, runs, builds, putLog, restored,
                           written, snapshot, visited, artifacts>>

\* BuildStrategy._build_layers returns; the with block of BuildStrategy.build is left
DefaultLayersReturn ==
    /\ pc = "default_layers"
    /\ idx > Len(ldefs)
    /\ pc' = "default_exit"
    /\ lastOp' = [op |-> "default_layers_return"]
    /\ UNCHANGED <<parVars, outVars, graphVars, envVars, idx, result, exc, scoped, toolVars, puts, runs, builds,
                   putLog, restored, written, snapshot, visited>>

\* BuildStrategy.__exit__ does nothing and returns None: build() returns the mapping or the
\* exception in flight goes on to the caller
DefaultExit ==
    /\ pc = "default_exit"
    /\ pc' = "idle"
    /\ events' = Append(events, [event |-> "__exit__", of |-> "default"])
    /\ lastOp' = [op |-> "default_build", exc |-> exc,
                  result |-> IF exc = "none" THEN result ELSE {}]
    /\ UNCHANGED <<tasks, outVars, graphVars, envVars, idx, result, exc, scoped, toolVars, puts, runs, builds,
                   putLog, restored, written, snapshot, visited>>

\* a single-definition build that answers with the definition's units
BuildSingleDefinitionNamingUnits(definition) ==
    IF "functions" \in DOMAIN definition
    THEN {<<function.name, ArtifactsDir(function.name)>> : function \in Range(definition.functions)}
    ELSE {<<definition.layer.name, ArtifactsDir(definition.layer.name)>>}

\* BuildStrategy.build_single_function_definition and build_single_layer_definition of the
\* base class: return {}
BuildSingleDefinition(definition) == {}

\* the mappings BuildStrategy._build_functions / _build_layers of the base class collect
\* over definitions
RECURSIVE BuildDefinitions(_)
BuildDefinitions(definitions) ==
    IF definitions = <<>> THEN {}
    ELSE DictUpdate(BuildDefinitions(SubSeq(definitions, 1, Len(definitions) - 1)),
                    BuildSingleDefinition(definitions[Len(definitions)]))

\* BuildStrategy.build of the base class: nothing in it waits for anything or fails, so the
\* call is one step
BuildStrategy_build ==
    /\ pc = "idle"
    /\ builds < MaxBuilds
    /\ builds' = builds + 1
    /\ calls' = <<>>
    /\ events' = <<[event |-> "__enter__", of |-> "base"]>>
                 \o [i \in 1..Len(fdefs) |->
                        [event |-> "build_single_function_definition", of |-> "base",
                         uuid |-> fdefs[i].uuid, raised |-> "none"]]
                 \o [i \in 1..Len(ldefs) |->
                        [event |-> "build_single_layer_definition", of |-> "base",
                         uuid |-> ldefs[i].uuid, raised |-> "none"]]
                 \o <<[event |-> "__exit__", of |-> "base"]>>
    /\ lastOp' = [op |-> "base_build", exc |-> "none",
                  result |-> DictUpdate(DictUpdate({}, BuildDefinitions(fdefs)),
                                        BuildDefinitions(ldefs))]
    /\ UNCHANGED <<tasks, graphVars, envVars, buildVars, toolVars, puts, runs, putLog, restored, written,
                   snapshot, visited, artifacts>>

\* the record of the single-definition builds after the one of uuid
Visit(log, uuid, entry) == [u \in (DOMAIN log) \cup {uuid} |-> IF u = uuid THEN entry ELSE log[u]]

\* CachedBuildStrategy.build: enters itself and the delegate, then BuildStrategy.build
\* enters the strategy again and starts with the function definitions
CachedBuildStrategy_build ==
    \E is_building_specific_resource \in BOOLEAN :
        /\ pc = "idle"
        /\ builds < MaxBuilds
        /\ builds' = builds + 1
        /\ pc' = "functions"
        /\ idx' = 1
        /\ result' = {}
        /\ exc' = "none"
        /\ scoped' = is_building_specific_resource
        /\ calls' = <<>>
        /\ events' = <<[event |-> "__enter__", of |-> "cached"],
                      [event |-> "__enter__", of |-> "delegate"],
                      [event |-> "__enter__", of |-> "cached"]>>
        /\ lastOp' = [op |-> "build_enter"]
        /\ UNCHANGED <<tasks, graphVars, envVars, toolVars, puts, runs, putLog, restored, written, snapshot,
                       visited, artifacts>>

\* CachedBuildStrategy.build_single_function_definition on the next function definition;
\* the build_function callback returns
CachedBuildSingleFunctionWith(ok) ==
    LET build_definition == fdefs[idx]
        source_md5 == dir_checksum(build_definition.codeuri)
        invalid == CacheInvalid(cache, build_definition, source_md5)
        build == DefaultBuildSingleFunction(build_definition, ok)
        copied == {<<function.name, ArtifactsDir(function.name)>> :
                     function \in Range(build_definition.functions)}
        raised == IF invalid THEN build.exc ELSE "none"
        now == [hash |-> source_md5, delegated |-> invalid, exc |-> raised,
                first |-> build_definition.uuid \notin DOMAIN visited]
    IN  /\ pc = "functions"
        /\ idx <= Len(fdefs)
        /\ visited' = Visit(visited, build_definition.uuid, now)
        /\ events' = Append(events, [event |-> "build_single_function_definition",
                                     of |-> "cached", uuid |-> build_definition.uuid,
                                     raised |-> raised])
        /\ lastOp' = [op |-> "build_single_function", uuid |-> build_definition.uuid, now |-> now,
                      seen |-> build_definition.uuid \in DOMAIN visited,
                      prev |-> IF build_definition.uuid \in DOMAIN visited
                               THEN visited[build_definition.uuid] ELSE now,
                      result |-> IF raised # "none" THEN {}
                                 ELSE IF invalid THEN build.result ELSE copied]
        /\ calls' = IF invalid THEN calls \o build.called ELSE calls
        /\ IF raised # "none"
           THEN /\ exc' = raised
                /\ pc' = WithBlockLeft("exit_inner")
                /\ cache' = CacheAfterFailedBuild(cache, build_definition.uuid)
                /\ UNCHANGED <<fdefs, idx, result, artifacts>>
           ELSE /\ artifacts' =
                       ArtifactsCopy(artifacts,
                           IF invalid THEN build.copies
                           ELSE CopyToUnits(build_definition.functions,
                                            [uuid |-> build_definition.uuid,
                                             hash |-> cache[build_definition.uuid]]))
                /\ fdefs' = IF invalid
                            THEN [fdefs EXCEPT ![idx] = set_source_md5(@, source_md5)]
                            ELSE fdefs
                /\ cache' = IF invalid
                            THEN CacheAfterBuild(cache, build_definition.uuid, build.result,
                                                 source_md5)
                            ELSE cache
                /\ result' = DictUpdate(result, IF invalid THEN build.result ELSE copied)
                /\ idx' = idx + 1
                /\ UNCHANGED <<pc, exc>>
        /\ UNCHANGED <<tasks, ldefs, doc, nextUuid, srcHash, scoped, toolVars, puts, runs, builds, putLog,
                       restored, written, snapshot>>

CachedBuildSingleFunction == CachedBuildSingleFunctionWith(TRUE)

\* the same method, the cache invalid and the build callback raising
CachedBuildSingleFunctionCallbackFails ==
    /\ pc = "functions"
    /\ idx <= Len(fdefs)
    /\ CacheInvalid(cache, fdefs[idx], dir_checksum(fdefs[idx].codeuri))
    /\ DefaultBuildSingleFunction(fdefs[idx], TRUE).exc = "none"
    /\ CachedBuildSingleFunctionWith(FALSE)

\* BuildStrategy._build_functions returns; _build_layers starts
BuildFunctionsReturn ==
    /\ pc = "functions"
    /\ idx > Len(fdefs)
    /\ pc' = "layers"
    /\ idx' = 1
    /\ lastOp' = [op |-> "build_functions_return"]
    /\ UNCHANGED <<parVars, outVars, graphVars, envVars, result, exc, scoped, toolVars, puts, runs, builds, putLog,
                   restored, written, snapshot, visited>>

\* CachedBuildStrategy.build_single_layer_definition on the next layer definition; the
\* build_layer callback returns
CachedBuildSingleLayerWith(ok) ==
    LET layer_definition == ldefs[idx]
        source_md5 == dir_checksum(layer_definition.codeuri)
        invalid == CacheInvalid(cache, layer_definition, source_md5)
        build == DefaultBuildSingleLayer(layer_definition, ok)
        raised == IF invalid THEN build.exc
                  ELSE IF layer_definition.layer.isNone THEN "AttributeError"
                  ELSE "none"
        copied == {<<layer_definition.layer.name, ArtifactsDir(layer_definition.layer.name)>>}
        now == [hash |-> source_md5, delegated |-> invalid, exc |-> raised,
                first |-> layer_definition.uuid \notin DOMAIN visited]
    IN  /\ pc = "layers"
        /\ idx <= Len(ldefs)
        /\ visited' = Visit(visited, layer_definition.uuid, now)
        /\ events' = Append(events, [event |-> "build_single_layer_definition",
                                     of |-> "cached", uuid |-> layer_definition.uuid,
                                     raised |-> raised])
        /\ lastOp' = [op |-> "build_single_layer", uuid |-> layer_definition.uuid, now |-> now,
                      seen |-> layer_definition.uuid \in DOMAIN visited,
                      prev |-> IF layer_definition.uuid \in DOMAIN visited
                               THEN visited[layer_definition.uuid] ELSE now,
                      result |-> IF raised # "none" THEN {}
                                 ELSE IF invalid THEN build.result ELSE copied]
        /\ calls' = IF invalid THEN calls \o build.called ELSE calls
        /\ IF raised # "none"
           THEN /\ exc' = raised
                /\ pc' = WithBlockLeft("exit_inner")
                /\ cache' = CacheAfterFailedBuild(cache, layer_definition.uuid)
                /\ UNCHANGED <<ldefs, idx, result, artifacts>>
           ELSE /\ artifacts' =
                       IF invalid THEN artifacts
                       ELSE ArtifactsCopy(artifacts,
                                CopyToUnits(<<layer_definition.layer>>,
                                            [uuid |-> layer_definition.uuid,
                                             hash |-> cache[layer_definition.uuid]]))
                /\ ldefs' = IF invalid
                            THEN [ldefs EXCEPT ![idx] = set_source_md5(@, source_md5)]
                            ELSE ldefs
                /\ cache' = IF invalid
                            THEN CacheAfterBuild(cache, layer_definition.uuid, build.result,
                                                 source_md5)
                            ELSE cache
                /\ result' = DictUpdate(result, IF invalid THEN build.result ELSE copied)
                /\ idx' = idx + 1
                /\ UNCHANGED <<pc, exc>>
        /\ UNCHANGED <<tasks, fdefs, doc, nextUuid, srcHash, scoped, toolVars, puts, runs, builds, putLog,
                       restored, written, snapshot>>

CachedBuildSingleLayer == CachedBuildSingleLayerWith(TRUE)

\* the same method, the cache invalid and the build callback raising
CachedBuildSingleLayerCallbackFails ==
    /\ pc = "layers"
    /\ idx <= Len(ldefs)
    /\ CacheInvalid(cache, ldefs[idx], dir_checksum(ldefs[idx].codeuri))
    /\ DefaultBuildSingleLayer(ldefs[idx], TRUE).exc = "none"
    /\ CachedBuildSingleLayerWith(FALSE)

\* CachedBuildStrategy.build_single_function_definition on the next function definition, the
\* cache invalid: the delegate builds, the cache directory is removed, the checksum is stored,
\* and the copy of the first artifacts directory into the cache directory fails part-way
CachedBuildSingleFunctionCopyFails ==
    LET build_definition == fdefs[idx]
        source_md5 == dir_checksum(build_definition.codeuri)
        build == DefaultBuildSingleFunction(build_definition, TRUE)
        now == [hash |-> source_md5, delegated |-> TRUE, exc |-> "OSError",
                first |-> build_definition.uuid \notin DOMAIN visited]
    IN  /\ pc = "functions"
        /\ idx <= Len(fdefs)
        /\ CacheInvalid(cache, build_definition, source_md5)
        /\ build.exc = "none"
        /\ build.result # {}
        /\ visited' = Visit(visited, build_definition.uuid, now)
        /\ events' = Append(events, [event |-> "build_single_function_definition",
                                     of |-> "cached", uuid |-> build_definition.uuid,
                                     raised |-> "OSError"])
        /\ lastOp' = [op |-> "build_single_function", uuid |-> build_definition.uuid, now |-> now,
                      seen |-> build_definition.uuid \in DOMAIN visited,
                      prev |-> IF build_definition.uuid \in DOMAIN visited
                               THEN visited[build_definition.uuid] ELSE now,
                      result |-> {}]
        /\ calls' = calls \o build.called
        /\ artifacts' = ArtifactsCopy(artifacts, build.copies)
        /\ fdefs' = [fdefs EXCEPT ![idx] = set_source_md5(@, source_md5)]
        /\ cache' = CacheAfterFailedCopy(cache, build_definition.uuid)
        /\ exc' = "OSError"
        /\ pc' = WithBlockLeft("exit_inner")
        /\ UNCHANGED <<tasks, ldefs, doc, nextUuid, srcHash, scoped, toolVars, puts, runs, builds, putLog,
                       restored, written, snapshot, idx, result>>

\* CachedBuildStrategy.build_single_layer_definition on the next layer definition, the cache
\* invalid: the delegate builds, the cache directory is removed, the checksum is stored, and
\* the copy of the built layer into the cache directory fails part-way
CachedBuildSingleLayerCopyFails ==
    LET layer_definition == ldefs[idx]
        source_md5 == dir_checksum(layer_definition.codeuri)
        build == DefaultBuildSingleLayer(layer_definition, TRUE)
        now == [hash |-> source_md5, delegated |-> TRUE, exc |-> "OSError",
                first |-> layer_definition.uuid \notin DOMAIN visited]
    IN  /\ pc = "layers"
        /\ idx <= Len(ldefs)
        /\ CacheInvalid(cache, layer_definition, source_md5)
        /\ build.exc = "none"
        /\ build.result # {}
        /\ visited' = Visit(visited, layer_definition.uuid, now)
        /\ events' = Append(events, [event |-> "build_single_layer_definition",
                                     of |-> "cached", uuid |-> layer_definition.uuid,
                                     raised |-> "OSError"])
        /\ lastOp' = [op |-> "build_single_layer", uuid |-> layer_definition.uuid, now |-> now,
                      seen |-> layer_definition.uuid \in DOMAIN visited,
                      prev |-> IF layer_definition.uuid \in DOMAIN visited
                               THEN visited[layer_definition.uuid] ELSE now,
                      result |-> {}]
        /\ calls' = calls \o build.called
        /\ ldefs' = [ldefs EXCEPT ![idx] = set_source_md5(@, source_md5)]
        /\ cache' = CacheAfterFailedCopy(cache, layer_definition.uuid)
        /\ exc' = "OSError"
        /\ pc' = WithBlockLeft("exit_inner")
        /\ UNCHANGED <<tasks, fdefs, doc, nextUuid, srcHash, scoped, toolVars, puts, runs, builds, putLog,
                       restored, written, snapshot, idx, result, artifacts>>

\* BuildStrategy._build_layers returns; the with block of BuildStrategy.build is left
BuildLayersReturn ==
    /\ pc = "layers"
    /\ idx > Len(ldefs)
    /\ pc' = "exit_inner"
    /\ lastOp' = [op |-> "build_layers_return"]
    /\ UNCHANGED <<parVars, outVars, graphVars, envVars, idx, result, exc, scoped, toolVars, puts, runs, builds, putLog,
                   restored, written, snapshot, visited>>

\* the methods class BuildGraph defines
BuildGraphMethods ==
    {"__init__", "get_function_build_definitions", "get_layer_build_definitions",
     "put_function_build_definition", "put_layer_build_definition",
     "clean_redundant_functions_and_update", "_read", "_write"}

\* the pruning method class BuildGraph defines
CleanMethodDefined == "clean_redundant_functions_and_update"

\* the method _clean_redundant_cached calls on the build graph
CleanMethodCalled == "clean_redundant_definitions_and_update"

\* the cache directories _clean_redundant_cached leaves: those named by a uuid of the graph
LiveCache(dirs, fs, ls) ==
    [u \in (DOMAIN dirs) \cap (Range(MapUuid(fs)) \cup Range(MapUuid(ls))) |-> dirs[u]]

\* CachedBuildStrategy._clean_redundant_cached: the attribute lookup on the graph raises
\* AttributeError when BuildGraph has no method of the name called
_clean_redundant_cached(fs, ls, document, dirs, delegate_is_building_specific_resource) ==
    IF CleanMethodCalled \notin BuildGraphMethods
    THEN [raised |-> TRUE, fdefs |-> fs, ldefs |-> ls, doc |-> document, cache |-> dirs,
          wrote |-> FALSE]
    ELSE LET persist == ~delegate_is_building_specific_resource
             keptF == CleanFunctions(fs)
             keptL == CleanLayers(ls)
         IN  [raised |-> FALSE, fdefs |-> keptF, ldefs |-> keptL,
              doc |-> IF persist THEN _write(keptF, keptL) ELSE document,
              cache |-> LiveCache(dirs, keptF, keptL),
              wrote |-> persist]

\* CachedBuildStrategy.__exit__ at next: what it leaves, and where build() goes on
CachedExit(next) ==
    LET out == _clean_redundant_cached(fdefs, ldefs, doc, cache, scoped)
    IN  /\ fdefs' = out.fdefs
        /\ ldefs' = out.ldefs
        /\ doc' = out.doc
        /\ cache' = out.cache
        /\ written' = IF out.wrote THEN [done |-> TRUE, fdefs |-> out.fdefs, ldefs |-> out.ldefs]
                      ELSE written
        /\ exc' = IF out.raised THEN "AttributeError" ELSE exc
        /\ events' = events \o <<[event |-> "__exit__", of |-> "cached"]>> \o
                     (IF out.wrote THEN <<[event |-> "_write", of |-> "graph"]>> ELSE <<>>)
        /\ pc' = next
        /\ scoped' = IF next = "idle" THEN FALSE ELSE scoped
        /\ UNCHANGED <<tasks, outVars, nextUuid, srcHash, idx, result, toolVars, puts, runs, builds, putLog,
                       restored, snapshot, visited>>

\* the with block of BuildStrategy.build is left: CachedBuildStrategy.__exit__
CachedExitInner ==
    /\ pc = "exit_inner"
    /\ CachedExit("exit_delegate")
    /\ lastOp' = [op |-> "exit_inner"]

\* the with block of CachedBuildStrategy.build is left: first the delegate's __exit__
DelegateExit ==
    /\ pc = "exit_delegate"
    /\ pc' = "exit_outer"
    /\ events' = Append(events, [event |-> "__exit__", of |-> "delegate"])
    /\ lastOp' = [op |-> "exit_delegate"]
    /\ UNCHANGED <<tasks, outVars, graphVars, envVars, idx, result, exc, scoped, toolVars, puts, runs, builds, putLog,
                   restored, written, snapshot, visited>>

\* then CachedBuildStrategy.__exit__ again, and build() returns or raises
CachedExitOuter ==
    /\ pc = "exit_outer"
    /\ CachedExit("idle")
    /\ lastOp' = [op |-> "build", scoped |-> scoped, exc |-> exc',
                  result |-> IF exc' = "none" THEN result ELSE {}]

\* ------------------------------------------------------------------------
\* Parallel build strategy: a delegate strategy and a task scheduler. The delegate is the
\* default strategy.
\* ------------------------------------------------------------------------
\* a scheduling that hands the scheduler one task per attached unit
TasksPerUnit(method, definition) ==
    IF method = "build_single_function_definition" /\ definition.functions # <<>>
    THEN [i \in 1..Len(definition.functions) |->
             [method |-> method, definition |-> definition, done |-> FALSE, exc |-> "none",
              result |-> {}]]
    ELSE <<[method |-> method, definition |-> definition, done |-> FALSE, exc |-> "none",
            result |-> {}]>>

\* the tasks the parallel strategy hands the scheduler for a definition: one task, which
\* calls method of the delegate on the definition
TasksFor(method, definition) ==
    <<[method |-> method, definition |-> definition, done |-> FALSE, exc |-> "none",
       result |-> {}]>>

\* a barrier that the first finished task opens
AnyTaskDone(ts) == ts = <<>> \/ \E i \in 1..Len(ts) : ts[i].done

\* the barrier of the scheduler: every scheduled task has finished
AllTasksDone(ts) == \A i \in 1..Len(ts) : ts[i].done

\* a merge that keeps the mapping of the first-scheduled task only
ParallelMergeFirstTask(ts) == IF ts = <<>> THEN {} ELSE ts[1].result

\* the merge of the mappings the tasks returned, taken in scheduling order; an entry of an
\* earlier-scheduled task is not overwritten by a later one
RECURSIVE ParallelMerge(_)
ParallelMerge(ts) ==
    IF ts = <<>> THEN {}
    ELSE DictUpdate(ParallelMerge(Tail(ts)), Head(ts).result)

\* the failure build() propagates: the one of the first-scheduled task that failed
RECURSIVE FirstFailure(_)
FirstFailure(ts) ==
    IF ts = <<>> THEN "none"
    ELSE IF Head(ts).exc # "none" THEN Head(ts).exc
    ELSE FirstFailure(Tail(ts))

\* ParallelBuildStrategy.build: the delegate is entered, then the definitions are scheduled
ParallelBuildStrategy_build ==
    /\ pc = "idle"
    /\ builds < MaxBuilds
    /\ builds' = builds + 1
    /\ pc' = "parallel_functions"
    /\ idx' = 1
    /\ result' = {}
    /\ exc' = "none"
    /\ calls' = <<>>
    /\ tasks' = <<>>
    /\ events' = <<[event |-> "__enter__"]>>
    /\ lastOp' = [op |-> "parallel_build_enter"]
    /\ UNCHANGED <<graphVars, envVars, scoped, toolVars, puts, runs, putLog, restored, written, snapshot,
                   visited, artifacts>>

\* the next function definition is scheduled
ParallelSubmitFunction ==
    LET new == TasksFor("build_single_function_definition", fdefs[idx])
    IN  /\ pc = "parallel_functions"
        /\ idx <= Len(fdefs)
        /\ tasks' = tasks \o new
        /\ events' = events \o [i \in 1..Len(new) |->
                                   [event |-> "add_async_task", task |-> Len(tasks) + i]]
        /\ idx' = idx + 1
        /\ lastOp' = [op |-> "parallel_submit", method |-> "build_single_function_definition",
                      uuid |-> fdefs[idx].uuid]
        /\ UNCHANGED <<outVars, graphVars, envVars, pc, result, exc, scoped, toolVars, puts, runs, builds,
                       putLog, restored, written, snapshot, visited>>

\* every function definition is scheduled; the layer definitions follow
ParallelFunctionsReturn ==
    /\ pc = "parallel_functions"
    /\ idx > Len(fdefs)
    /\ pc' = "parallel_layers"
    /\ idx' = 1
    /\ lastOp' = [op |-> "parallel_functions_return"]
    /\ UNCHANGED <<parVars, outVars, graphVars, envVars, result, exc, scoped, toolVars, puts, runs, builds,
                   putLog, restored, written, snapshot, visited>>

\* the next layer definition is scheduled
ParallelSubmitLayer ==
    LET new == TasksFor("build_single_layer_definition", ldefs[idx])
    IN  /\ pc = "parallel_layers"
        /\ idx <= Len(ldefs)
        /\ tasks' = tasks \o new
        /\ events' = events \o [i \in 1..Len(new) |->
                                   [event |-> "add_async_task", task |-> Len(tasks) + i]]
        /\ idx' = idx + 1
        /\ lastOp' = [op |-> "parallel_submit", method |-> "build_single_layer_definition",
                      uuid |-> ldefs[idx].uuid]
        /\ UNCHANGED <<outVars, graphVars, envVars, pc, result, exc, scoped, toolVars, puts, runs, builds,
                       putLog, restored, written, snapshot, visited>>

\* every definition is scheduled: build() starts to await the tasks
ParallelRunAsync ==
    /\ pc = "parallel_layers"
    /\ idx > Len(ldefs)
    /\ pc' = "parallel_await"
    /\ events' = Append(events, [event |-> "run_async"])
    /\ lastOp' = [op |-> "parallel_run_async"]
    /\ UNCHANGED <<tasks, outVars, graphVars, envVars, idx, result, exc, scoped, toolVars, puts, runs,
                   builds, putLog, restored, written, snapshot, visited>>

\* a worker of the pool runs a scheduled task to its end: the delegate's single-definition
\* build on the task's definition; the callback returns or raises
ParallelTask ==
    \E t \in 1..Len(tasks), ok \in BOOLEAN :
        LET task == tasks[t]
            function == task.method = "build_single_function_definition"
            build == IF function
                     THEN DefaultBuildSingleFunction(task.definition, ok)
                     ELSE [exc |-> DefaultBuildSingleLayer(task.definition, ok).exc,
                           result |-> DefaultBuildSingleLayer(task.definition, ok).result,
                           called |-> DefaultBuildSingleLayer(task.definition, ok).called,
                           copies |-> <<>>]
        IN  /\ pc \in {"parallel_functions", "parallel_layers", "parallel_await"}
            /\ ~task.done
            /\ tasks' = [tasks EXCEPT ![t] = [@ EXCEPT !.done = TRUE, !.exc = build.exc,
                                                       !.result = build.result]]
            /\ events' = Append(events, [event |-> "task", task |-> t])
            /\ calls' = calls \o build.called
            /\ artifacts' = ArtifactsCopy(artifacts, build.copies)
            /\ lastOp' = [op |-> "parallel_task", task |-> t, uuid |-> task.definition.uuid,
                          raised |-> build.exc]
            /\ UNCHANGED <<graphVars, envVars, buildVars, toolVars, puts, runs, builds, putLog, restored,
                           written, snapshot, visited>>

\* every task has finished: the mappings are merged, or the failure of a task goes on
ParallelCollect ==
    /\ pc = "parallel_await"
    /\ AllTasksDone(tasks)
    /\ exc' = FirstFailure(tasks)
    /\ result' = IF exc' = "none" THEN ParallelMerge(tasks) ELSE result
    /\ pc' = "parallel_exit"
    /\ lastOp' = [op |-> "parallel_collect"]
    /\ UNCHANGED <<parVars, outVars, graphVars, envVars, idx, scoped, toolVars, puts, runs, builds,
                   putLog, restored, written, snapshot, visited>>

\* the delegate is left, and build() returns the mapping or raises
ParallelExit ==
    /\ pc = "parallel_exit"
    /\ pc' = "idle"
    /\ events' = Append(events, [event |-> "__exit__"])
    /\ lastOp' = [op |-> "parallel_build", exc |-> exc,
                  result |-> IF exc = "none" THEN result ELSE {}]
    /\ UNCHANGED <<tasks, outVars, graphVars, envVars, idx, result, exc, scoped, toolVars, puts, runs,
                   builds, putLog, restored, written, snapshot, visited>>

\* ------------------------------------------------------------------------
\* CachedBuildStrategy as the delegate of the parallel strategy: its single-definition
\* builds run as tasks of the pool, a statement of one between the statements of another
\* ------------------------------------------------------------------------
\* the definition object a task was scheduled with
TaskDefinition(task) == IF task.function THEN fdefs[task.index] ELSE ldefs[task.index]

\* the tasks ParallelBuildStrategy.build schedules: one per function definition, then one
\* per layer definition
CachedTasks ==
    [i \in 1..(Len(fdefs) + Len(ldefs)) |->
        LET function == i <= Len(fdefs)
            index == IF function THEN i ELSE i - Len(fdefs)
        IN  [function |-> function, index |-> index,
             uuid |-> IF function THEN fdefs[index].uuid ELSE ldefs[index].uuid,
             at |-> "test", source_md5 |-> "", exc |-> "none", result |-> {}]]

\* the step a task is at is made: the task moves on
TaskStep(t, step, changed) ==
    /\ tasks' = [tasks EXCEPT ![t] = changed]
    /\ lastOp' = [op |-> "cached_task", task |-> t, step |-> step, uuid |-> tasks[t].uuid,
                  dir |-> CacheDir(TaskDefinition(tasks[t]))]

\* build() of the parallel strategy enters the cached strategy and schedules its
\* single-definition builds
CachedTasksSchedule ==
    /\ pc = "idle"
    /\ builds < MaxBuilds
    /\ builds' = builds + 1
    /\ pc' = "cached_tasks"
    /\ result' = {}
    /\ exc' = "none"
    /\ calls' = <<>>
    /\ tasks' = CachedTasks
    /\ events' = <<[event |-> "__enter__", of |-> "cached"]>>
    /\ lastOp' = [op |-> "cached_tasks_enter"]
    /\ UNCHANGED <<graphVars, envVars, idx, scoped, toolVars, puts, runs, putLog, restored, written,
                   snapshot, visited, artifacts>>

\* a task computes dir_checksum of the source and tests its cache directory and the
\* stored checksum
CachedTaskTest ==
    \E t \in 1..Len(tasks) :
        LET task == tasks[t]
            definition == TaskDefinition(task)
            source_md5 == dir_checksum(definition.codeuri)
            invalid == \/ CacheDir(definition) \notin DOMAIN cache
                       \/ definition.source_md5 # source_md5
        IN  /\ pc = "cached_tasks"
            /\ task.at = "test"
            /\ TaskStep(t, "test", [task EXCEPT !.source_md5 = source_md5,
                                                !.at = IF invalid THEN "delegate" ELSE "copy_out"])
            /\ UNCHANGED <<graphVars, envVars, buildVars, outVars, events, toolVars, puts, runs, builds,
                           putLog, restored, written, snapshot, visited>>

\* invalid cache: the delegate's single-definition build runs
CachedTaskDelegate ==
    \E t \in 1..Len(tasks) :
        LET task == tasks[t]
            definition == TaskDefinition(task)
            build == IF task.function
                     THEN DefaultBuildSingleFunction(definition, TRUE)
                     ELSE [exc |-> DefaultBuildSingleLayer(definition, TRUE).exc,
                           result |-> DefaultBuildSingleLayer(definition, TRUE).result,
                           called |-> DefaultBuildSingleLayer(definition, TRUE).called,
                           copies |-> <<>>]
        IN  /\ pc = "cached_tasks"
            /\ task.at = "delegate"
            /\ TaskStep(t, "delegate",
                        [task EXCEPT !.exc = build.exc, !.result = build.result,
                                     !.at = IF build.exc = "none" THEN "rmtree" ELSE "done"])
            /\ calls' = calls \o build.called
            /\ artifacts' = ArtifactsCopy(artifacts, build.copies)
            /\ UNCHANGED <<graphVars, envVars, buildVars, events, toolVars, puts, runs, builds, putLog,
                           restored, written, snapshot, visited>>

\* invalid cache: the cache directory, when there is one, is removed
CachedTaskRmtree ==
    \E t \in 1..Len(tasks) :
        LET task == tasks[t]
            dir == CacheDir(TaskDefinition(task))
        IN  /\ pc = "cached_tasks"
            /\ task.at = "rmtree"
            /\ TaskStep(t, "rmtree", [task EXCEPT !.at = "set_source_md5"])
            /\ cache' = IF dir \in DOMAIN cache THEN CacheRemove(cache, dir) ELSE cache
            /\ UNCHANGED <<graphVars, srcHash, buildVars, outVars, events, toolVars, puts, runs, builds,
                           putLog, restored, written, snapshot, visited>>

\* invalid cache: the checksum of the source is stored in the definition
CachedTaskSetSourceMd5 ==
    \E t \in 1..Len(tasks) :
        LET task == tasks[t]
        IN  /\ pc = "cached_tasks"
            /\ task.at = "set_source_md5"
            /\ TaskStep(t, "set_source_md5", [task EXCEPT !.at = "copytree"])
            /\ fdefs' = IF task.function
                        THEN [fdefs EXCEPT ![task.index] = set_source_md5(@, task.source_md5)]
                        ELSE fdefs
            /\ ldefs' = IF task.function
                        THEN ldefs
                        ELSE [ldefs EXCEPT ![task.index] = set_source_md5(@, task.source_md5)]
            /\ UNCHANGED <<doc, nextUuid, envVars, buildVars, outVars, events, toolVars, puts, runs,
                           builds, putLog, restored, written, snapshot, visited>>

\* invalid cache: the first artifact of the delegate's mapping is copied into the cache
\* directory, and the method returns the delegate's mapping
CachedTaskCopytree ==
    \E t \in 1..Len(tasks) :
        LET task == tasks[t]
            dir == CacheDir(TaskDefinition(task))
        IN  /\ pc = "cached_tasks"
            /\ task.at = "copytree"
            /\ TaskStep(t, "copytree", [task EXCEPT !.at = "done"])
            /\ cache' = IF task.result # {} THEN CacheCopy(cache, dir, task.source_md5)
                        ELSE cache
            /\ UNCHANGED <<graphVars, srcHash, buildVars, outVars, events, toolVars, puts, runs, builds,
                           putLog, restored, written, snapshot, visited>>

\* valid cache: the cache directory is copied to the artifacts directory of every unit of
\* the definition, and the method returns one entry per unit
CachedTaskCopyOut ==
    \E t \in 1..Len(tasks) :
        LET task == tasks[t]
            definition == TaskDefinition(task)
            dir == CacheDir(definition)
            units == IF task.function THEN definition.functions
                     ELSE IF definition.layer.isNone THEN <<>>
                     ELSE <<definition.layer>>
            raised == IF ~task.function /\ definition.layer.isNone THEN "AttributeError"
                      ELSE IF units # <<>> /\ dir \notin DOMAIN cache THEN "FileNotFoundError"
                      ELSE "none"
        IN  /\ pc = "cached_tasks"
            /\ task.at = "copy_out"
            /\ TaskStep(t, "copy_out",
                        [task EXCEPT !.at = "done", !.exc = raised,
                                     !.result = IF raised # "none" THEN {}
                                                ELSE {<<unit.name, ArtifactsDir(unit.name)>> :
                                                         unit \in Range(units)}])
            /\ artifacts' = IF raised # "none" \/ units = <<>> THEN artifacts
                            ELSE ArtifactsCopy(artifacts,
                                     CopyToUnits(units, [uuid |-> definition.uuid,
                                                         hash |-> cache[dir]]))
            /\ UNCHANGED <<graphVars, envVars, buildVars, calls, events, toolVars, puts, runs, builds,
                           putLog, restored, written, snapshot, visited>>

\* every task has finished: build() of the parallel strategy leaves the cached strategy
CachedTasksExit ==
    /\ pc = "cached_tasks"
    /\ \A t \in 1..Len(tasks) : tasks[t].at = "done"
    /\ CachedExit("idle")
    /\ lastOp' = [op |-> "cached_tasks_exit"]

\* ------------------------------------------------------------------------
\* Specifications
\* ------------------------------------------------------------------------
\* the first graph object, constructed when no build.toml exists
Init ==
    /\ fdefs = <<>>
    /\ ldefs = <<>>
    /\ doc = NoDocument
    /\ nextUuid = 1
    /\ cache = <<>>
    /\ srcHash = [codeuri \in CodeUris |-> "h1"]
    /\ pc = "idle"
    /\ idx = 1
    /\ result = {}
    /\ exc = "none"
    /\ scoped = FALSE
    /\ puts = 0
    /\ runs = 1
    /\ builds = 0
    /\ lastOp = [op |-> "none"]
    /\ putLog = {}
    /\ restored = {}
    /\ written = NothingWritten
    /\ snapshot = NoSnapshot
    /\ visited = <<>>
    /\ calls = <<>>
    /\ artifacts = <<>>
    /\ tasks = <<>>
    /\ events = <<>>
    /\ infra = NoInfraSync
    /\ versionCheck = NoVersionCheck
    /\ samconfig = NoSamConfig

\* the operations of BuildGraph, called in any order with any arguments
Next ==
    \/ BuildGraph__init__
    \/ put_function_build_definition
    \/ put_layer_build_definition
    \/ clean_redundant_functions_and_update

Spec == Init /\ [][Next]_vars

\* the function side of BuildGraph under any sequence of puts
NextFunctions ==
    \/ BuildGraph__init__
    \/ put_function_build_definition
    \/ clean_redundant_functions_and_update

SpecFunctions == Init /\ [][NextFunctions]_vars

\* runs that replay a template on the graph read from build.toml, prune it and write it
NextRerun ==
    \/ BuildGraph__init__
    \/ DeclareFunction
    \/ DeclareLayer
    \/ SetFunctionSourceMd5
    \/ SetLayerSourceMd5
    \/ PruneAndPersistAgain

SpecRerun == Init /\ [][NextRerun]_vars

\* the template is replayed on the graph and the caller reads the definition lists
NextSnapshot ==
    \/ BuildGraph__init__
    \/ DeclareFunction
    \/ DeclareLayer
    \/ clean_redundant_functions_and_update
    \/ get_function_build_definitions
    \/ get_layer_build_definitions

SpecSnapshot == Init /\ [][NextSnapshot]_vars

\* the layer side of BuildGraph, with the checksums set by a caller
NextLayers ==
    \/ BuildGraph__init__
    \/ put_layer_build_definition
    \/ SetLayerSourceMd5
    \/ clean_redundant_functions_and_update

SpecLayers == Init /\ [][NextLayers]_vars

\* the template is replayed on the graph, checksums are set as builds end, and the graph is
\* pruned, written and read back
NextPersist ==
    \/ BuildGraph__init__
    \/ DeclareFunction
    \/ DeclareLayer
    \/ SetFunctionSourceMd5
    \/ SetLayerSourceMd5
    \/ clean_redundant_functions_and_update

SpecPersist == Init /\ [][NextPersist]_vars

\* runs that find build.toml missing, written by the run before, or not readable as a
\* build graph
NextRead ==
    \/ BuildGraph__init__
    \/ DeclareFunction
    \/ DeclareLayer
    \/ PruneAndPersist
    \/ RemoveDocument
    \/ CorruptDocument

SpecRead == Init /\ [][NextRead]_vars

\* runs of the build: the template is replayed on the graph, the cached strategy builds
NextCached ==
    \/ BuildGraph__init__
    \/ DeclareFunction
    \/ DeclareLayer
    \/ PruneAndPersist
    \/ ChangeSource
    \/ CachedBuildStrategy_build
    \/ CachedBuildSingleFunction
    \/ BuildFunctionsReturn
    \/ CachedBuildSingleLayer
    \/ BuildLayersReturn
    \/ CachedExitInner
    \/ DelegateExit
    \/ CachedExitOuter

SpecCached == Init /\ [][NextCached]_vars

\* runs of the build with the default strategy: the template is replayed on the graph, the
\* graph is written for the next run, the strategy builds; a callback returns or raises
NextDefault ==
    \/ BuildGraph__init__
    \/ DeclareFunction
    \/ DeclareLayer
    \/ PruneAndPersist
    \/ DefaultBuildStrategy_build
    \/ DefaultBuildFunction
    \/ DefaultFunctionsReturn
    \/ DefaultBuildLayer
    \/ DefaultLayersReturn
    \/ DefaultExit

SpecDefault == Init /\ [][NextDefault]_vars

\* a run of the build with the parallel strategy over the default strategy: the template is
\* replayed on the first graph object, the strategy builds, and the tasks finish in any
\* order
NextParallel ==
    \/ DeclareFunction
    \/ DeclareLayer
    \/ ParallelBuildStrategy_build
    \/ ParallelSubmitFunction
    \/ ParallelFunctionsReturn
    \/ ParallelSubmitLayer
    \/ ParallelRunAsync
    \/ ParallelTask
    \/ ParallelCollect
    \/ ParallelExit

SpecParallel == Init /\ [][NextParallel]_vars

\* a run of the build with each of the sequential strategies on the first graph object: the
\* base strategy, the default strategy, and the cached strategy over the default strategy
NextStrategies ==
    \/ DeclareFunction
    \/ DeclareLayer
    \/ BuildStrategy_build
    \/ DefaultBuildStrategy_build
    \/ DefaultBuildFunction
    \/ DefaultFunctionsReturn
    \/ DefaultBuildLayer
    \/ DefaultLayersReturn
    \/ DefaultExit
    \/ CachedBuildStrategy_build
    \/ CachedBuildSingleFunction
    \/ BuildFunctionsReturn
    \/ CachedBuildSingleLayer
    \/ BuildLayersReturn
    \/ CachedExitInner
    \/ DelegateExit
    \/ CachedExitOuter

SpecStrategies == Init /\ [][NextStrategies]_vars

\* runs of the build with the cached strategy on sources that do not change: the template is
\* replayed on the graph, the graph is written for the next run, the strategy builds
NextCachedRuns ==
    \/ BuildGraph__init__
    \/ DeclareFunction
    \/ DeclareLayer
    \/ PruneAndPersist
    \/ CachedBuildStrategy_build
    \/ CachedBuildSingleFunction
    \/ BuildFunctionsReturn
    \/ CachedBuildSingleLayer
    \/ BuildLayersReturn
    \/ CachedExitInner
    \/ DelegateExit
    \/ CachedExitOuter

SpecCachedRuns == Init /\ [][NextCachedRuns]_vars

\* runs of the build with the cached strategy in which a copy into the cache directory can
\* fail part-way
NextCachedCopyFails ==
    \/ BuildGraph__init__
    \/ DeclareFunction
    \/ DeclareLayer
    \/ PruneAndPersist
    \/ CachedBuildStrategy_build
    \/ CachedBuildSingleFunction
    \/ CachedBuildSingleFunctionCopyFails
    \/ BuildFunctionsReturn
    \/ CachedBuildSingleLayer
    \/ CachedBuildSingleLayerCopyFails
    \/ BuildLayersReturn
    \/ CachedExitInner
    \/ DelegateExit
    \/ CachedExitOuter

SpecCachedCopyFails == Init /\ [][NextCachedCopyFails]_vars

\* builds of one graph object with the cached strategy under the parallel strategy
NextCachedTasks ==
    \/ DeclareFunction
    \/ DeclareLayer
    \/ CachedTasksSchedule
    \/ CachedTaskTest
    \/ CachedTaskDelegate
    \/ CachedTaskRmtree
    \/ CachedTaskSetSourceMd5
    \/ CachedTaskCopytree
    \/ CachedTaskCopyOut
    \/ CachedTasksExit

SpecCachedTasks == Init /\ [][NextCachedTasks]_vars

\* builds of one graph object with the cached strategy, the sources edited between them
\* and the build callbacks returning or raising
NextCachedCallbackFails ==
    \/ DeclareFunction
    \/ DeclareLayer
    \/ ChangeSource
    \/ CachedBuildStrategy_build
    \/ CachedBuildSingleFunction
    \/ CachedBuildSingleFunctionCallbackFails
    \/ BuildFunctionsReturn
    \/ CachedBuildSingleLayer
    \/ CachedBuildSingleLayerCallbackFails
    \/ BuildLayersReturn
    \/ CachedExitInner
    \/ DelegateExit
    \/ CachedExitOuter

SpecCachedCallbackFails == Init /\ [][NextCachedCallbackFails]_vars

\* builds of one graph object with the cached strategy, the sources edited between them
NextCachedRebuild ==
    \/ DeclareFunction
    \/ DeclareLayer
    \/ ChangeSource
    \/ CachedBuildStrategy_build
    \/ CachedBuildSingleFunction
    \/ BuildFunctionsReturn
    \/ CachedBuildSingleLayer
    \/ BuildLayersReturn
    \/ CachedExitInner
    \/ DelegateExit
    \/ CachedExitOuter

SpecCachedRebuild == Init /\ [][NextCachedRebuild]_vars

\* ------------------------------------------------------------------------
\* InfraSyncExecutor
\* ------------------------------------------------------------------------
\* the resource types whose CodeUri the comparison leaves out
FunctionTypes == {"AWS::Serverless::Function", "AWS::Lambda::Function"}
NestedStackType == "AWS::CloudFormation::Stack"

\* package_context.output_template_file and deploy_context.stack_name of the executor, and
\* the TemplateURL and PhysicalResourceId of the one nested stack a template may declare
OutputTemplateFile == "packaged.yaml"
StackName == "stack"
ChildTemplateURL == "https://s3.amazonaws.com/bucket/child.yaml"
ChildStackName == "stack-Child"

\* local_template_path.startswith("https://")
IsS3Location(local_template_path) == local_template_path = ChildTemplateURL

\* a template is its Resources: logical id -> [Type, Properties]
Resource(type, properties) == [Type |-> type, Properties |-> properties]
FunctionProperties(codeuri, handler) ==
    [k \in {"CodeUri", "Handler"} |-> IF k = "CodeUri" THEN codeuri ELSE handler]
ChildResource == Resource(NestedStackType, [k \in {"TemplateURL"} |-> ChildTemplateURL])

\* the templates package may have written and a stack may have been deployed from: one
\* resource "Fn" with a CodeUri and a Handler, and for a root template possibly the nested
\* stack "Child"
TemplateTypes == {"AWS::Serverless::Function", "AWS::S3::Bucket"}
CodeUriValues == {"s3://bucket/a", "s3://bucket/b"}
HandlerValues == {"app.h1", "app.h2"}
LeafTemplate(type, codeuri, handler) ==
    [id \in {"Fn"} |-> Resource(type, FunctionProperties(codeuri, handler))]
RootTemplate(type, codeuri, handler, nested) ==
    [id \in IF nested THEN {"Fn", "Child"} ELSE {"Fn"} |->
        IF id = "Fn" THEN Resource(type, FunctionProperties(codeuri, handler))
        ELSE ChildResource]
RootTemplates ==
    {RootTemplate(t, c, h, n) : t \in TemplateTypes, c \in CodeUriValues, h \in HandlerValues,
                                n \in BOOLEAN}
ChildTemplates ==
    {LeafTemplate("AWS::Lambda::Function", c, h) : c \in CodeUriValues, h \in HandlerValues}

\* what CloudFormation holds: the stacks that exist, with the template each was deployed from
DeployedStacks ==
    {[s \in {StackName} |-> t] : t \in RootTemplates}
        \cup {[s \in {StackName, ChildStackName} |-> IF s = StackName THEN t[1] ELSE t[2]] :
                t \in RootTemplates \X ChildTemplates}
        \cup {<<>>}

\* the service calls of one comparison that may fail
ServiceCalls == {"get_object", "describe_stack_resource"}

\* _remove_unnecesary_fields: pops CodeUri from the Properties of every function resource
_remove_unnecesary_fields(template_dict) ==
    [id \in DOMAIN template_dict |->
        IF template_dict[id].Type \in FunctionTypes
        THEN [template_dict[id] EXCEPT
                !.Properties = [k \in DOMAIN template_dict[id].Properties \ {"CodeUri"} |->
                                    template_dict[id].Properties[k]]]
        ELSE template_dict[id]]

\* the deploy step follows a comparison that returned False
DeployAlways(compared) == TRUE

DeployNeeded(compared) == compared = "False"

\* _compare_templates: "True", "False", or "raise" when a service call raises. The
\* templates of the model declare at most one nested stack, so the loop over the resources
\* makes at most one recursive call.
RECURSIVE _compare_templates(_, _, _)
_compare_templates(world, local_template_path, stack_name) ==
    IF IsS3Location(local_template_path) /\ "get_object" \in world.failing
    THEN "raise"
    ELSE IF stack_name \notin DOMAIN world.deployed
    THEN "False"   \* except ClientError: the stack does not exist
    ELSE LET current_template == _remove_unnecesary_fields(world.local[local_template_path])
             last_deployed_template_dict == _remove_unnecesary_fields(world.deployed[stack_name])
             nested == {id \in DOMAIN current_template :
                            current_template[id].Type = NestedStackType}
         IN  IF last_deployed_template_dict # current_template
             THEN "False"
             ELSE IF nested = {}
             THEN "True"
             ELSE IF "describe_stack_resource" \in world.failing
             THEN "raise"
             ELSE LET resource_dict == current_template[CHOOSE id \in nested : TRUE]
                      below == _compare_templates(world, resource_dict.Properties["TemplateURL"],
                                                  ChildStackName)
                  IN  IF below = "True" THEN "True" ELSE below

\* one context call of execute_infra_sync, which returns or raises
InfraSyncCall(at, call, then) ==
    /\ infra.pc = at
    /\ \E ok \in BOOLEAN :
        infra' = [infra EXCEPT !.pc = IF ok THEN then ELSE "raised",
                               !.steps = Append(@, [call |-> call, raised |-> ~ok])]
    /\ UNCHANGED <<buildSide, versionCheck, samconfig>>

\* execute_infra_sync is called: the packaged templates and the deployed stacks it will
\* meet are those of the environment
execute_infra_sync ==
    /\ infra.pc = "none"
    /\ \E root \in RootTemplates, child \in ChildTemplates, deployed \in DeployedStacks,
          failing \in SUBSET ServiceCalls :
        infra' = [pc |-> "set_up",
                  world |-> [local |-> [p \in {OutputTemplateFile, ChildTemplateURL} |->
                                            IF p = OutputTemplateFile THEN root ELSE child],
                             deployed |-> deployed,
                             failing |-> failing],
                  steps |-> <<>>,
                  compared |-> "none",
                  returned |-> "none"]
    /\ UNCHANGED <<buildSide, versionCheck, samconfig>>

\* self._build_context.set_up()
BuildContext_set_up == InfraSyncCall("set_up", "set_up", "build")

\* self._build_context.run()
BuildContext_run == InfraSyncCall("build", "build", "package")

\* self._package_context.run()
PackageContext_run == InfraSyncCall("package", "package", "compare")

\* if self._compare_templates(output_template_file, stack_name): return False
InfraSyncCompare ==
    /\ infra.pc = "compare"
    /\ LET compared == _compare_templates(infra.world, OutputTemplateFile, StackName)
       IN  infra' = [infra EXCEPT
                        !.compared = compared,
                        !.steps = Append(@, [call |-> "compare", raised |-> compared = "raise"]),
                        !.pc = IF compared = "raise" THEN "raised"
                               ELSE IF DeployNeeded(compared) THEN "deploy" ELSE "returned",
                        !.returned = IF compared # "raise" /\ ~DeployNeeded(compared)
                                     THEN "False" ELSE @]
    /\ UNCHANGED <<buildSide, versionCheck, samconfig>>

\* self._deploy_context.run(); return True
DeployContext_run ==
    /\ infra.pc = "deploy"
    /\ \E ok \in BOOLEAN :
        infra' = [infra EXCEPT !.pc = IF ok THEN "returned" ELSE "raised",
                               !.steps = Append(@, [call |-> "deploy", raised |-> ~ok]),
                               !.returned = IF ok THEN "True" ELSE @]
    /\ UNCHANGED <<buildSide, versionCheck, samconfig>>

\* one execute_infra_sync() call, in any environment
NextInfraSync ==
    \/ execute_infra_sync
    \/ BuildContext_set_up
    \/ BuildContext_run
    \/ PackageContext_run
    \/ InfraSyncCompare
    \/ DeployContext_run

SpecInfraSync == Init /\ [][NextInfraSync]_vars

\* ------------------------------------------------------------------------
\* check_newer_version
\* ------------------------------------------------------------------------
\* what the wrapped command may return
CommandResults == {"None", "0", "1"}

\* what global_config.last_version_check may hold: nothing, a time more than DELTA_DAYS
\* ago, a later time, or a value that does not compare with a datetime (the float that
\* update_last_check_time stores is one)
LastVersionChecks == {"None", "old", "recent", "unorderable"}

\* is_last_check_older_then_week: TRUE, FALSE, or "TypeError" from the comparison
is_last_check_older_then_week(last_version_check) ==
    IF last_version_check = "None" THEN "True"
    ELSE IF last_version_check = "unorderable" THEN "TypeError"
    ELSE IF last_version_check = "old" THEN "True" ELSE "False"

\* where wrapped() goes on after a statement of its try block: on, or through the except
\* clause to the finally clause
VersionCheckUncaught(ok, then) == IF ok THEN then ELSE "raised"

VersionCheckAfter(ok, then) == IF ok THEN then ELSE "finally"

\* one statement of wrapped() was executed
VersionCheckStep(call, ok) == Append(versionCheck.log, [call |-> call, raised |-> ~ok])

\* actual_result = func(*args, **kwargs), with the global configuration as it stands
WrappedCommand ==
    /\ versionCheck.pc = "none"
    /\ \E stored \in LastVersionChecks, ok \in BOOLEAN, actual_result \in CommandResults :
        versionCheck' = [pc |-> IF ok THEN "GlobalConfig" ELSE "raised",
                         stored |-> stored,
                         actual_result |-> IF ok THEN actual_result ELSE "none",
                         global_config |-> "None",
                         last_version_check |-> "none",
                         need_to_update_last_check_time |-> TRUE,
                         log |-> <<[call |-> "func", raised |-> ~ok]>>,
                         returned |-> "none"]
    /\ UNCHANGED <<buildSide, infra, samconfig>>

\* global_config = GlobalConfig()
VersionCheckGlobalConfig ==
    /\ versionCheck.pc = "GlobalConfig"
    /\ \E ok \in BOOLEAN :
        versionCheck' = [versionCheck EXCEPT
                            !.pc = VersionCheckAfter(ok, "last_version_check"),
                            !.global_config = IF ok THEN "GlobalConfig" ELSE @,
                            !.log = VersionCheckStep("GlobalConfig", ok)]
    /\ UNCHANGED <<buildSide, infra, samconfig>>

\* last_version_check = global_config.last_version_check
VersionCheckRead ==
    /\ versionCheck.pc = "last_version_check"
    /\ \E ok \in BOOLEAN :
        versionCheck' = [versionCheck EXCEPT
                            !.pc = VersionCheckAfter(ok, "is_last_check_older_then_week"),
                            !.last_version_check = IF ok THEN versionCheck.stored ELSE @,
                            !.log = VersionCheckStep("last_version_check", ok)]
    /\ UNCHANGED <<buildSide, infra, samconfig>>

\* if is_last_check_older_then_week(last_version_check): ... else:
\*     need_to_update_last_check_time = False
VersionCheckOlder ==
    /\ versionCheck.pc = "is_last_check_older_then_week"
    /\ LET older == is_last_check_older_then_week(versionCheck.last_version_check)
       IN  versionCheck' = [versionCheck EXCEPT
                !.pc = VersionCheckAfter(older # "TypeError",
                            IF older = "True" THEN "compare_current_version" ELSE "finally"),
                !.need_to_update_last_check_time = IF older = "False" THEN FALSE ELSE @,
                !.log = VersionCheckStep("is_last_check_older_then_week", older # "TypeError")]
    /\ UNCHANGED <<buildSide, infra, samconfig>>

\* compare_current_version(): the PyPI call, which may fail
compare_current_version ==
    /\ versionCheck.pc = "compare_current_version"
    /\ \E ok \in BOOLEAN :
        versionCheck' = [versionCheck EXCEPT
                            !.pc = VersionCheckAfter(ok, "finally"),
                            !.log = VersionCheckStep("compare_current_version", ok)]
    /\ UNCHANGED <<buildSide, infra, samconfig>>

\* finally: if need_to_update_last_check_time: update_last_check_time(global_config), which
\* writes when it was given a configuration object and keeps a failure of the write to
\* itself; then return actual_result
VersionCheckFinally ==
    /\ versionCheck.pc = "finally"
    /\ \E ok \in BOOLEAN :
        LET writes == /\ versionCheck.need_to_update_last_check_time
                      /\ versionCheck.global_config # "None"
        IN  /\ ~writes => ok
            /\ versionCheck' = [versionCheck EXCEPT
                    !.pc = "returned",
                    !.stored = IF writes /\ ok THEN "unorderable" ELSE @,
                    !.log = IF writes THEN VersionCheckStep("update_last_check_time", ok) ELSE @,
                    !.returned = versionCheck.actual_result]
    /\ UNCHANGED <<buildSide, infra, samconfig>>

\* one call of a wrapped command
NextVersionCheck ==
    \/ WrappedCommand
    \/ VersionCheckGlobalConfig
    \/ VersionCheckRead
    \/ VersionCheckOlder
    \/ compare_current_version
    \/ VersionCheckFinally

SpecVersionCheck == Init /\ [][NextVersionCheck]_vars

\* ------------------------------------------------------------------------
\* AbstractSamConfig
\* ------------------------------------------------------------------------
MaxConfigPuts == 2   \* put calls on the samconfig object

\* DEFAULT_GLOBAL_CMDNAME, as a key: the sequence of the parts "_" separates
GlobalKey == <<"global">>

\* a word of a command name, as the sequence of the parts that "-" and " " separate in it
Word(parts) == parts

\* the cmd_names arguments of the model; the last two name the same command
CmdNames ==
    {<<Word(<<"global">>)>>, <<Word(<<"deploy">>)>>, <<Word(<<"local">>), Word(<<"invoke">>)>>,
     <<Word(<<"local", "invoke">>)>>}

\* _to_key: every "-" and " " of every word replaced by "_", and the words joined by "_"
RECURSIVE _to_key(_)
_to_key(cmd_names) ==
    IF cmd_names = <<>> THEN <<>> ELSE Head(cmd_names) \o _to_key(Tail(cmd_names))

ParamKeys == {"region", "stack_name"}
ParamValues == {"v1", "v2"}

\* the section of one command: key -> value
NoParams == <<>>
OneParam(key, value) == [k \in {key} |-> value]

\* dict.update: the entries of other laid over those of params
ParamsUpdate(params, other) ==
    [k \in DOMAIN params \cup DOMAIN other |-> IF k \in DOMAIN other THEN other[k] ELSE params[k]]

\* del params[key]
DictDel(params, key) == [k \in DOMAIN params \ {key} |-> params[k]]

\* a document: its version key ("absent" when it has none) and, of its default environment,
\* the parameters section of each command it has a table for
Document(version, tables) == [version |-> version, tables |-> tables]
EmptyDocument == Document("absent", <<>>)
\* self._document = None, and the file that does not exist
NoneDocument == Document("None", <<>>)
NoFile == Document("no file", <<>>)
SAM_CONFIG_VERSION == "0.1"

\* the truth value of a document (a dict): it has a key
Truthy(document) ==
    /\ document # NoneDocument
    /\ document.version # "absent" \/ DOMAIN document.tables # {}

\* the samconfig files of the model: no file, an empty one, one without a version, and
\* the files with a version and any of a global, a deploy and a local_invoke table
FileTables ==
    {[key \in present |->
        IF key = GlobalKey THEN OneParam("region", "v1")
        ELSE IF key = <<"deploy">> THEN OneParam("stack_name", "v2")
        ELSE OneParam("region", "v2")] :
        present \in SUBSET {GlobalKey, <<"deploy">>, <<"local", "invoke">>}}
SamConfigFiles ==
    {NoFile, EmptyDocument, Document("absent", [key \in {GlobalKey} |-> OneParam("region", "v1")])}
        \cup {Document(SAM_CONFIG_VERSION, tables) : tables \in FileTables}

\* self.version(): (self._document or dict).get(VERSION_KEY, None), which raises TypeError
\* for a document without keys
version(document) == IF Truthy(document) THEN document.version ELSE "TypeError"

\* _version_sanity_check(version): the exception it raises, or "none"
_version_sanity_check(v) ==
    IF v = "TypeError" THEN "TypeError"
    ELSE IF v # SAM_CONFIG_VERSION THEN "SamConfigVersionException" ELSE "none"

\* _read: the document after it and the exception it raises ("none" when it returns)
SamConfig_read(document, file) ==
    IF ~Truthy(document)
    THEN IF file = NoFile
         THEN [document |-> EmptyDocument, raised |-> "none"]   \* except OSError
         ELSE [document |-> file, raised |-> _version_sanity_check(version(file))]
    ELSE [document |-> document, raised |-> _version_sanity_check(version(document))]

\* dict.get(key, {}) on the tables of a document
Section(tables, key) == IF key \in DOMAIN tables THEN tables[key] ELSE NoParams

\* the body of get_all after self._read(): the mapping returned ...
GetAllParams(tables, key) ==
    IF GlobalKey \in DOMAIN tables
    THEN ParamsUpdate(tables[GlobalKey], Section(tables, key))
    ELSE Section(tables, key)

\* ... and the tables after it: global_params is the global section itself, not a copy, and
\* global_params.update(params.copy()) writes into it
GetAllTables(tables, key) ==
    IF GlobalKey \in DOMAIN tables
    THEN [tables EXCEPT ![GlobalKey] = ParamsUpdate(@, Section(tables, key))]
    ELSE tables

\* _deduplicate_global_parameters
_deduplicate_global_parameters(tables, cmd_name_key, key) ==
    LET global_params == Section(tables, GlobalKey)
        command_params == Section(tables, cmd_name_key)
    IN  IF /\ cmd_name_key # GlobalKey
           /\ global_params # NoParams
           /\ command_params # NoParams
           /\ key \in DOMAIN global_params
           /\ key \in DOMAIN command_params
           /\ global_params[key] = command_params[key]
        THEN [tables EXCEPT ![cmd_name_key] = DictDel(@, key)]
        ELSE tables

\* the body of put after the document is loaded: the tables after it
PutTables(tables, cmd_name_key, key, value) ==
    _deduplicate_global_parameters(
        [k \in DOMAIN tables \cup {cmd_name_key} |->
            IF k = cmd_name_key THEN ParamsUpdate(Section(tables, k), OneParam(key, value))
            ELSE tables[k]],
        cmd_name_key, key)

\* _write: the file after it
SamConfig_write(document, file) ==
    IF ~Truthy(document) THEN file
    ELSE [document EXCEPT !.version = IF @ # "absent" THEN @ ELSE SAM_CONFIG_VERSION]

\* a samconfig object is constructed over a file
SamConfig__init__ ==
    /\ samconfig.pc = "none"
    /\ \E file \in SamConfigFiles :
        samconfig' = [pc |-> "ready",
                      document |-> NoneDocument,
                      file |-> file,
                      origin |-> file,
                      stored |-> {},
                      puts |-> 0,
                      op |-> [call |-> "__init__"]]
    /\ UNCHANGED <<buildSide, infra, versionCheck>>

\* get_all(cmd_names, "parameters")
get_all ==
    /\ samconfig.pc = "ready"
    /\ \E cmd_names \in CmdNames :
        LET read == SamConfig_read(samconfig.document, samconfig.file)
            key == _to_key(cmd_names)
        IN  samconfig' = [samconfig EXCEPT
                !.document = IF read.raised # "none" THEN read.document
                             ELSE [read.document EXCEPT !.tables = GetAllTables(@, key)],
                !.op = [call |-> "get_all", key |-> key, raised |-> read.raised,
                        before |-> read.document,
                        returned |-> IF read.raised # "none" THEN NoParams
                                     ELSE GetAllParams(read.document.tables, key)]]
    /\ UNCHANGED <<buildSide, infra, versionCheck>>

\* put(cmd_names, "parameters", key, value)
put ==
    /\ samconfig.pc = "ready"
    /\ samconfig.puts < MaxConfigPuts
    /\ \E cmd_names \in CmdNames, key \in ParamKeys, value \in ParamValues :
        LET read == IF ~Truthy(samconfig.document)
                    THEN SamConfig_read(samconfig.document, samconfig.file)
                    ELSE [document |-> samconfig.document, raised |-> "none"]
            cmd_name_key == _to_key(cmd_names)
        IN  samconfig' = [samconfig EXCEPT
                !.puts = @ + 1,
                !.document = IF read.raised # "none" THEN read.document
                             ELSE [read.document EXCEPT
                                    !.tables = PutTables(@, cmd_name_key, key, value)],
                !.stored = IF read.raised # "none" THEN @
                           ELSE @ \cup {<<cmd_name_key, key, value>>},
                !.op = [call |-> "put", key |-> cmd_name_key, raised |-> read.raised]]
    /\ UNCHANGED <<buildSide, infra, versionCheck>>

\* flush()
flush ==
    /\ samconfig.pc = "ready"
    /\ samconfig' = [samconfig EXCEPT
            !.file = SamConfig_write(samconfig.document, samconfig.file),
            !.document = IF Truthy(samconfig.document)
                         THEN SamConfig_write(samconfig.document, samconfig.file) ELSE @,
            !.op = [call |-> "flush", wrote |-> Truthy(samconfig.document)]]
    /\ UNCHANGED <<buildSide, infra, versionCheck>>

\* the calls on one samconfig object, in any order
NextSamConfig ==
    \/ SamConfig__init__
    \/ get_all
    \/ put
    \/ flush

SpecSamConfig == Init /\ [][NextSamConfig]_vars

\* ------------------------------------------------------------------------
\* Properties
\* ------------------------------------------------------------------------
\* the dict a metadata argument stands for
MetadataDict(metadata) == IF metadata.isNone THEN {} ELSE metadata.items

\* metadata declares BuildMethod == "makefile"
DeclaresMakefile(dict) == <<"BuildMethod", "makefile">> \in dict

\* the positions of the function definitions with the runtime, codeuri and metadata of key
FunctionMatches(defs, key) ==
    {i \in 1..Len(defs) : /\ defs[i].runtime = key.runtime
                          /\ defs[i].codeuri = key.codeuri
                          /\ defs[i].metadata = MetadataDict(key.metadata)}

\* the uuids of all definitions of the graph
GraphUuids == Range(MapUuid(fdefs)) \cup Range(MapUuid(ldefs))

\* C1: after any sequence of put_function_build_definition calls the graph holds exactly
\* one function definition for every (runtime, codeuri, metadata) combination that was put
\* and does not declare the makefile build method, and every unit put with that
\* combination is attached to that definition.
C1_OneDefinitionPerCombination ==
    \A p \in putLog :
        ~DeclaresMakefile(MetadataDict(p.key.metadata)) =>
            /\ Cardinality(FunctionMatches(fdefs, p.key)) = 1
            /\ \A i \in FunctionMatches(fdefs, p.key) : p.function \in Range(fdefs[i].functions)

\* two units put with the same combination share the one definition
C1_Witness ==
    \E p \in putLog, q \in putLog :
        /\ p.key = q.key
        /\ p.function # q.function
        /\ ~DeclaresMakefile(MetadataDict(p.key.metadata))
        /\ \E i \in 1..Len(fdefs) :
               {p.function, q.function} \subseteq Range(fdefs[i].functions)

\* C2: a put of a function definition whose metadata declares the makefile build method
\* never merges: it appends a new definition that holds exactly the unit put with it and
\* leaves every earlier definition as it was, also when an earlier or restored definition
\* has the same runtime, codeuri and metadata.
C2_MakefileNeverMerges ==
    [][(lastOp'.op = "put_function" /\ DeclaresMakefile(MetadataDict(lastOp'.key.metadata))) =>
          /\ Len(fdefs') = Len(fdefs) + 1
          /\ SubSeq(fdefs', 1, Len(fdefs)) = fdefs
          /\ fdefs'[Len(fdefs')].functions = <<lastOp'.function>>
          /\ Len(fdefs') \in FunctionMatches(fdefs', lastOp'.key)]_vars

\* a makefile definition was put next to a restored definition with the same arguments
C2_Witness ==
    /\ lastOp.op = "put_function"
    /\ DeclaresMakefile(MetadataDict(lastOp.key.metadata))
    /\ \E i \in FunctionMatches(fdefs, lastOp.key) :
           /\ fdefs[i].uuid \in restored
           /\ i # Len(fdefs)

C4_RoundTrip ==
    (lastOp.op = "__init__" /\ written.done) =>
        /\ Len(fdefs) = Len(written.fdefs)
        /\ \A i \in 1..Len(written.fdefs) :
               /\ fdefs[i].uuid = written.fdefs[i].uuid
               /\ fdefs[i].codeuri = written.fdefs[i].codeuri
               /\ fdefs[i].runtime = written.fdefs[i].runtime
               /\ fdefs[i].metadata = written.fdefs[i].metadata
               /\ fdefs[i].source_md5 = written.fdefs[i].source_md5
               /\ fdefs[i].functions = <<>>
        /\ Len(ldefs) = Len(written.ldefs)
        /\ \A i \in 1..Len(written.ldefs) :
               /\ ldefs[i].uuid = written.ldefs[i].uuid
               /\ ldefs[i].name = written.ldefs[i].name
               /\ ldefs[i].codeuri = written.ldefs[i].codeuri
               /\ ldefs[i].build_method = written.ldefs[i].build_method
               /\ ldefs[i].compatible_runtimes = written.ldefs[i].compatible_runtimes
               /\ ldefs[i].source_md5 = written.ldefs[i].source_md5
               /\ ldefs[i].layer = NoLayer

\* a function definition with a unit and a checksum and a layer definition with a checksum
\* were written and read back
C4_Witness ==
    /\ lastOp.op = "__init__"
    /\ written.done
    /\ \E i \in 1..Len(written.fdefs) :
           /\ written.fdefs[i].functions # <<>>
           /\ written.fdefs[i].source_md5 # ""
    /\ \E i \in 1..Len(written.ldefs) : written.ldefs[i].source_md5 # ""

\* the positions of the layer definitions with the name, codeuri, build method and
\* compatible runtimes of key
LayerMatches(defs, key) ==
    {i \in 1..Len(defs) : /\ defs[i].name = key.name
                          /\ defs[i].codeuri = key.codeuri
                          /\ defs[i].build_method = key.build_method
                          /\ defs[i].compatible_runtimes = key.compatible_runtimes}

\* the checksums of a definition list, in order
RECURSIVE MapSourceMd5(_)
MapSourceMd5(s) == IF s = <<>> THEN <<>> ELSE <<Head(s).source_md5>> \o MapSourceMd5(Tail(s))

\* the put definition equals a definition the graph read from the document
EqualsRestoredFunction(key) ==
    /\ ~DeclaresMakefile(MetadataDict(key.metadata))
    /\ \E i \in FunctionMatches(fdefs, key) : fdefs[i].uuid \in restored

EqualsRestoredLayer(key) == \E i \in LayerMatches(ldefs, key) : ldefs[i].uuid \in restored

\* the put definition matches no definition of the graph
MatchesNoFunction(key) ==
    DeclaresMakefile(MetadataDict(key.metadata)) \/ FunctionMatches(fdefs, key) = {}

\* C5: a put of a definition that equals a restored one leaves the uuids and the checksums
\* of the graph as they were, so the restored uuid and checksum stay and the uuid generated
\* for the put definition is not in the graph; a put of a definition that matches no
\* definition of the graph appends it with a uuid no definition of the graph had.
C5_IdentifierStability ==
    [][/\ (lastOp'.op = "put_function" /\ EqualsRestoredFunction(lastOp'.key)) =>
              /\ MapUuid(fdefs') = MapUuid(fdefs)
              /\ MapSourceMd5(fdefs') = MapSourceMd5(fdefs)
              /\ Uuid(nextUuid) \notin Range(MapUuid(fdefs'))
       /\ (lastOp'.op = "put_function" /\ MatchesNoFunction(lastOp'.key)) =>
              /\ Len(fdefs') = Len(fdefs) + 1
              /\ SubSeq(fdefs', 1, Len(fdefs)) = fdefs
              /\ fdefs'[Len(fdefs')].uuid \notin GraphUuids
       /\ (lastOp'.op = "put_layer" /\ EqualsRestoredLayer(lastOp'.key)) =>
              /\ MapUuid(ldefs') = MapUuid(ldefs)
              /\ MapSourceMd5(ldefs') = MapSourceMd5(ldefs)
              /\ Uuid(nextUuid) \notin Range(MapUuid(ldefs'))
       /\ (lastOp'.op = "put_layer" /\ LayerMatches(ldefs, lastOp'.key) = {}) =>
              /\ Len(ldefs') = Len(ldefs) + 1
              /\ SubSeq(ldefs', 1, Len(ldefs)) = ldefs
              /\ ldefs'[Len(ldefs')].uuid \notin GraphUuids]_vars

\* a unit was put on a restored definition that carries a checksum
C5_Witness ==
    /\ lastOp.op = "put_function"
    /\ \E i \in FunctionMatches(fdefs, lastOp.key) :
           /\ fdefs[i].uuid \in restored
           /\ fdefs[i].source_md5 # ""
           /\ lastOp.function \in Range(fdefs[i].functions)

\* the uuids of the function definitions of defs that hold a unit
UsedFunctionUuids(defs) == {defs[i].uuid : i \in {j \in 1..Len(defs) : defs[j].functions # <<>>}}

\* the uuids of the layer definitions of defs that have a layer attached
UsedLayerUuids(defs) == {defs[i].uuid : i \in {j \in 1..Len(defs) : ~defs[j].layer.isNone}}

\* C6: after clean_redundant_functions_and_update every function definition of the graph
\* holds a unit and every layer definition has a layer attached; the definitions that held
\* a unit or a layer before the call are all still there, unchanged and in the order they
\* had.
C6_PruneKeepsUsed ==
    [][lastOp'.op = "clean" =>
          /\ \A i \in 1..Len(fdefs') : Len(fdefs'[i].functions) >= 1
          /\ \A i \in 1..Len(ldefs') : ldefs'[i].layer \in Layers
          /\ MapUuid(fdefs') = SelectSeq(MapUuid(fdefs), LAMBDA u : u \in UsedFunctionUuids(fdefs))
          /\ MapUuid(ldefs') = SelectSeq(MapUuid(ldefs), LAMBDA u : u \in UsedLayerUuids(ldefs))
          /\ Range(fdefs') \subseteq Range(fdefs)
          /\ Range(ldefs') \subseteq Range(ldefs)]_vars

\* a prune dropped a restored definition and kept another one
C6_Witness ==
    /\ lastOp.op = "clean"
    /\ \E u \in restored : u \notin GraphUuids
    /\ Len(fdefs) + Len(ldefs) > 0

\* the uuid keys of a table of the document, in order
RECURSIVE MapKey(_)
MapKey(entries) == IF entries = <<>> THEN <<>> ELSE <<Head(entries).key>> \o MapKey(Tail(entries))

\* C7: clean_redundant_functions_and_update(TRUE) leaves a document that holds exactly the
\* definitions the graph retains, each under its uuid with its fields;
\* clean_redundant_functions_and_update(FALSE) leaves the document as it was.
C7_PersistWritesRetained ==
    [][lastOp'.op = "clean" =>
          IF lastOp'.persist
          THEN /\ doc'.exists
               /\ MapKey(doc'.function_build_definitions) = MapUuid(fdefs')
               /\ MapKey(doc'.layer_build_definitions) = MapUuid(ldefs')
               /\ \A i \in 1..Len(fdefs') :
                      LET t == doc'.function_build_definitions[i].table
                      IN  /\ t.codeuri = fdefs'[i].codeuri
                          /\ t.runtime = fdefs'[i].runtime
                          /\ t.source_md5 = fdefs'[i].source_md5
                          /\ Len(t.functions) = Len(fdefs'[i].functions)
               /\ \A i \in 1..Len(ldefs') :
                      LET t == doc'.layer_build_definitions[i].table
                      IN  /\ t.layer_name = ldefs'[i].name
                          /\ t.codeuri = ldefs'[i].codeuri
                          /\ t.build_method = ldefs'[i].build_method
                          /\ t.compatible_runtimes = ldefs'[i].compatible_runtimes
                          /\ t.source_md5 = ldefs'[i].source_md5
          ELSE doc' = doc]_vars

\* a persisting prune overwrote a document that held a definition the graph did not retain
C7_Witness ==
    /\ lastOp.op = "clean"
    /\ lastOp.persist
    /\ \E u \in restored : u \notin GraphUuids
    /\ Len(doc.function_build_definitions) + Len(doc.layer_build_definitions) > 0

\* the uuids of the definitions of the graph that hold a unit or have a layer attached
LiveUuids == UsedFunctionUuids(fdefs) \cup UsedLayerUuids(ldefs)

\* the uuids the document holds
DocumentUuids ==
    Range(MapKey(doc.function_build_definitions)) \cup Range(MapKey(doc.layer_build_definitions))

\* C8: when a build() of the cached strategy over a delegate that is not building a specific
\* resource has ended, a restored definition that got no unit in this run is neither in the
\* graph nor in the document and has no cache directory.
C8_RemovedUnitPruned ==
    (lastOp.op = "build" /\ ~lastOp.scoped) =>
        \A u \in restored \ LiveUuids :
            /\ u \notin GraphUuids
            /\ u \notin DocumentUuids
            /\ u \notin DOMAIN cache

\* C9: put_layer_build_definition merges exactly when a layer definition of the graph has
\* the name, codeuri, build method and compatible runtimes of the put one, whatever layer
\* and checksum the two carry: then that definition gets the put layer in place of its own
\* and nothing else changes; otherwise the put definition is appended with the put layer.
C9_LayerMerge ==
    [][lastOp'.op = "put_layer" =>
          LET matches == LayerMatches(ldefs, lastOp'.key)
          IN  IF matches # {}
              THEN /\ Len(ldefs') = Len(ldefs)
                   /\ \E i \in matches :
                          /\ ldefs'[i] = [ldefs[i] EXCEPT !.layer = lastOp'.layer]
                          /\ \A j \in (1..Len(ldefs)) \ {i} : ldefs'[j] = ldefs[j]
              ELSE /\ Len(ldefs') = Len(ldefs) + 1
                   /\ SubSeq(ldefs', 1, Len(ldefs)) = ldefs
                   /\ Len(ldefs') \in LayerMatches(ldefs', lastOp'.key)
                   /\ ldefs'[Len(ldefs')].layer = lastOp'.layer]_vars

\* a layer was put on a restored definition that carries a checksum, which the put
\* definition does not
C9_Witness ==
    /\ lastOp.op = "put_layer"
    /\ \E i \in LayerMatches(ldefs, lastOp.key) :
           /\ ldefs[i].uuid \in restored
           /\ ldefs[i].source_md5 # ""
           /\ ldefs[i].layer = lastOp.layer

\* uuid4 values are generated in increasing order here, so a list is in insertion order
\* when its uuids increase
InInsertionOrder(uuids) == \A i \in 1..Len(uuids), j \in 1..Len(uuids) : i < j => uuids[i] < uuids[j]

C11_MissingOrMalformedDocument ==
    [][lastOp'.op = "__init__" =>
          /\ ~doc.exists =>
                 /\ lastOp'.raised = "none"
                 /\ fdefs' = <<>>
                 /\ ldefs' = <<>>
          /\ doc \in {UnparseableDocument, IncompleteDocument} =>
                 /\ lastOp'.raised \notin {"none", "OSError"}
                 /\ <<fdefs', ldefs', restored'>> = <<fdefs, ldefs, restored>>]_vars

\* a graph that held a definition was to be replaced by one read from a malformed document
C11_Witness ==
    /\ lastOp.op = "__init__"
    /\ lastOp.raised # "none"
    /\ fdefs # <<>>

\* the names of the units of functions
UnitNames(functions) == {function.name : function \in Range(functions)}

\* C12: when the default strategy has built a function definition with N units, the
\* mapping it returns has exactly N entries, one per unit and each naming the unit's own
\* directory under the build directory, and each of these directories holds a copy of the
\* output of the one build_function invocation made for the definition.
C12_FanOut ==
    (lastOp.op = "default_single_function" /\ lastOp.raised = "none") =>
        /\ Cardinality(lastOp.result) = Len(lastOp.functions)
        /\ {entry[1] : entry \in lastOp.result} = UnitNames(lastOp.functions)
        /\ \A entry \in lastOp.result : entry[2] = <<BuildDir, entry[1]>>
        /\ calls # <<>>
        /\ calls[Len(calls)].definition = lastOp.uuid
        /\ Cardinality({i \in 1..Len(calls) : calls[i].definition = lastOp.uuid}) = 1
        /\ \A entry \in lastOp.result :
               /\ entry[2] \in DOMAIN artifacts
               /\ artifacts[entry[2]] = calls[Len(calls)].output

C12_Witness ==
    /\ lastOp.op = "default_single_function"
    /\ lastOp.raised = "none"
    /\ Len(lastOp.functions) = 2

\* the invocations of callback among cs, in the order they were made
CallsOf(cs, callback) ==
    LET made(call) == call.callback = callback
    IN  SelectSeq(cs, made)

\* C13: a build() of the default strategy that returns has invoked build_function exactly
\* once per function definition, with the name and handler of the definition's first unit
\* and the definition's codeuri, runtime and metadata, and build_layer exactly once per
\* layer definition, with the attached layer's name, codeuri, build method and compatible
\* runtimes; and no build(), returning or not, invokes a callback twice for a definition.
C13_OneCallPerDefinition ==
    /\ \A i, j \in 1..Len(calls) : calls[i].definition = calls[j].definition => i = j
    /\ (lastOp.op = "default_build" /\ lastOp.exc = "none") =>
           LET fcalls == CallsOf(calls, "build_function")
               lcalls == CallsOf(calls, "build_layer")
           IN  /\ Len(fcalls) = Len(fdefs)
               /\ Len(lcalls) = Len(ldefs)
               /\ Len(calls) = Len(fdefs) + Len(ldefs)
               /\ \A i \in 1..Len(fdefs) :
                      /\ fcalls[i].definition = fdefs[i].uuid
                      /\ fcalls[i].name = fdefs[i].functions[1].name
                      /\ fcalls[i].handler = fdefs[i].functions[1].handler
                      /\ fcalls[i].codeuri = fdefs[i].codeuri
                      /\ fcalls[i].runtime = fdefs[i].runtime
                      /\ fcalls[i].metadata = fdefs[i].metadata
               /\ \A i \in 1..Len(ldefs) :
                      /\ lcalls[i].definition = ldefs[i].uuid
                      /\ lcalls[i].name = ldefs[i].layer.name
                      /\ lcalls[i].codeuri = ldefs[i].layer.codeuri
                      /\ lcalls[i].build_method = ldefs[i].layer.build_method
                      /\ lcalls[i].compatible_runtimes = ldefs[i].layer.compatible_runtimes

C13_Witness ==
    /\ lastOp.op = "default_build"
    /\ lastOp.exc = "none"
    /\ \E i \in 1..Len(fdefs) : Len(fdefs[i].functions) = 2

\* C14: when the default strategy comes to a layer definition whose layer has no build
\* method, the single-definition build raises MissingBuildMethodException naming that
\* layer, the build_layer callback is not invoked, no entry is made for the layer, and
\* build() ends with that exception instead of a mapping.
C14_MissingBuildMethod ==
    [][/\ (/\ lastOp'.op = "default_single_layer"
            /\ ~lastOp'.layer.isNone
            /\ lastOp'.layer.build_method = NoneValue) =>
               /\ lastOp'.raised = "MissingBuildMethodException"
               /\ lastOp'.message = lastOp'.layer.name
               /\ lastOp'.result = {}
               /\ calls' = calls
               /\ result' = result
               /\ exc' = "MissingBuildMethodException"
               /\ pc' = "default_exit"
       /\ (pc = "default_exit" /\ exc = "MissingBuildMethodException") =>
               /\ lastOp'.op = "default_build"
               /\ lastOp'.exc = "MissingBuildMethodException"
               /\ lastOp'.result = {}]_vars

C14_Witness ==
    /\ lastOp.op = "default_build"
    /\ lastOp.exc = "MissingBuildMethodException"
    /\ \E i \in 1..Len(ldefs) : ldefs[i].layer.name = "L2"
    /\ \A i \in 1..Len(calls) : calls[i].name # "L2"

\* C15: when the default strategy comes to a function definition with no unit, the
\* single-definition build raises InvalidBuildGraphException, the build_function callback
\* is not invoked, no artifact is copied, and build() ends with that exception.
C15_NoUnits ==
    [][/\ (lastOp'.op = "default_single_function" /\ lastOp'.functions = <<>>) =>
               /\ lastOp'.raised = "InvalidBuildGraphException"
               /\ lastOp'.result = {}
               /\ calls' = calls
               /\ artifacts' = artifacts
               /\ result' = result
               /\ exc' = "InvalidBuildGraphException"
               /\ pc' = "default_exit"
       /\ (pc = "default_exit" /\ exc = "InvalidBuildGraphException") =>
               /\ lastOp'.op = "default_build"
               /\ lastOp'.exc = "InvalidBuildGraphException"
               /\ lastOp'.result = {}]_vars

C15_Witness ==
    /\ lastOp.op = "default_build"
    /\ lastOp.exc = "InvalidBuildGraphException"
    /\ \E i \in 1..Len(fdefs) : fdefs[i].functions = <<>>

\* the position in es of the event that task t ran; 0 when it has not run
TaskEvent(es, t) ==
    IF \E i \in 1..Len(es) : es[i] = [event |-> "task", task |-> t]
    THEN CHOOSE i \in 1..Len(es) : es[i] = [event |-> "task", task |-> t]
    ELSE 0

\* the positions in es of the events named event
EventsNamed(es, event) == {i \in 1..Len(es) : es[i].event = event}

\* C16: a build() of the parallel strategy that returns gives the same set of
\* (unit, artifact location) pairs as the default strategy gives on the same graph, in
\* whatever order the scheduled tasks finished.
C16_ParallelEquivalence ==
    (lastOp.op = "parallel_build" /\ lastOp.exc = "none") =>
        lastOp.result = DefaultBuildResult(fdefs, ldefs)

C16_Witness ==
    /\ lastOp.op = "parallel_build"
    /\ lastOp.exc = "none"
    /\ Len(tasks) >= 2
    /\ TaskEvent(events, 2) < TaskEvent(events, 1)
    /\ Cardinality(lastOp.result) >= 2

\* C17: once build() of the parallel strategy awaits, the scheduler holds exactly one task
\* per function definition and one per layer definition of the graph, each for the
\* delegate's single-definition build of that definition; a task that ran made the
\* delegate's build of its definition; and every task was handed over before the await.
C17_OneTaskPerDefinition ==
    /\ (pc \in {"parallel_await", "parallel_exit"} \/ lastOp.op = "parallel_build") =>
           /\ Len(tasks) = Len(fdefs) + Len(ldefs)
           /\ \A i \in 1..Len(fdefs) :
                  /\ tasks[i].method = "build_single_function_definition"
                  /\ tasks[i].definition = fdefs[i]
           /\ \A i \in 1..Len(ldefs) :
                  /\ tasks[Len(fdefs) + i].method = "build_single_layer_definition"
                  /\ tasks[Len(fdefs) + i].definition = ldefs[i]
    /\ \A t \in 1..Len(tasks) :
           (tasks[t].done /\ tasks[t].exc = "none") =>
               /\ Cardinality({i \in 1..Len(calls) :
                                 calls[i].definition = tasks[t].definition.uuid}) = 1
               /\ tasks[t].result =
                      IF tasks[t].method = "build_single_function_definition"
                      THEN DefaultBuildSingleFunction(tasks[t].definition, TRUE).result
                      ELSE DefaultBuildSingleLayer(tasks[t].definition, TRUE).result
    /\ Cardinality(EventsNamed(events, "run_async")) <= 1
    /\ Cardinality(EventsNamed(events, "add_async_task")) = Len(tasks)
    /\ \A i \in EventsNamed(events, "run_async"), j \in EventsNamed(events, "add_async_task") :
           j < i

C17_Witness ==
    /\ lastOp.op = "parallel_run_async"
    /\ Len(fdefs) = 1
    /\ Len(fdefs[1].functions) = 2
    /\ Len(tasks) = 1

\* C18: in a build() of the parallel strategy the delegate is entered exactly once, before
\* any task is handed over or runs, and left exactly once, after every task has finished,
\* however many definitions there are and however the tasks interleave; build() has left
\* the delegate when it returns or raises.
C18_DelegateLifecycle ==
    /\ (pc \notin {"idle"} \/ lastOp.op = "parallel_build") =>
           (events # <<>> /\ EventsNamed(events, "__enter__") = {1})
    /\ events # <<>> => EventsNamed(events, "__enter__") = {1}
    /\ \A i \in EventsNamed(events, "__exit__") :
           /\ i = Len(events)
           /\ \A t \in 1..Len(tasks) :
                  tasks[t].done /\ TaskEvent(events, t) > 1 /\ TaskEvent(events, t) < i
    /\ lastOp.op = "parallel_build" =>
           (Cardinality(EventsNamed(events, "__exit__")) = 1 /\ Len(tasks) = Len(fdefs) + Len(ldefs))
    /\ pc # "idle" => EventsNamed(events, "__exit__") = {}

C18_Witness ==
    /\ lastOp.op = "parallel_build"
    /\ Len(tasks) = 2
    /\ \E i \in EventsNamed(events, "run_async") : TaskEvent(events, 2) < i
    /\ \E i \in EventsNamed(events, "run_async") : TaskEvent(events, 1) > i

\* C19: when a build() of the cached strategy has ended, its teardown has left no function
\* definition without a unit and no layer definition without a layer in the graph, and
\* every directory of the cache directory is named by the uuid of a definition of the graph.
C19_TeardownBoundsCache ==
    lastOp.op = "build" =>
        /\ \A i \in 1..Len(fdefs) : fdefs[i].functions # <<>>
        /\ \A i \in 1..Len(ldefs) : ~ldefs[i].layer.isNone
        /\ DOMAIN cache \subseteq GraphUuids

\* C20: in a build() of the cached strategy over a delegate that is building a specific
\* resource, no __exit__ takes away what is kept for a restored definition that got no unit
\* in this run: its table stays in the document and its cache directory stays as it is.
C20_ScopedTeardownKeeps ==
    [][(pc \in {"exit_inner", "exit_outer"} /\ scoped) =>
          \A u \in restored \ LiveUuids :
              /\ u \in DocumentUuids => u \in DocumentUuids'
              /\ u \in DOMAIN cache => (u \in DOMAIN cache' /\ cache'[u] = cache[u])]_vars

C20_Witness ==
    /\ lastOp.op = "build"
    /\ lastOp.scoped
    /\ \E u \in restored \ LiveUuids : u \in DocumentUuids /\ u \in DOMAIN cache

\* the positions in es of the single-definition builds
SingleBuilds(es) ==
    EventsNamed(es, "build_single_function_definition")
        \cup EventsNamed(es, "build_single_layer_definition")

\* where a build() of the cached strategy is when it is not idle
CachedPcs == {"functions", "layers", "exit_inner", "exit_delegate", "exit_outer"}

SingleBuildFailed(es) == \E i \in SingleBuilds(es) : es[i].raised # "none"

\* C22: when a single-definition build of a build() of the cached strategy fails, build.toml
\* is after the call what it was before it: no step of build() up to the failure and no
\* __exit__ after it changes the document.
C22_FailureLeavesDocument ==
    [][/\ (pc \in {"functions", "layers"} \/ (pc = "idle" /\ pc' \in CachedPcs)) => doc' = doc
       /\ (pc \in {"exit_inner", "exit_delegate", "exit_outer"} /\ SingleBuildFailed(events)) =>
              doc' = doc]_vars

C22_Witness ==
    /\ lastOp.op = "build"
    /\ ~lastOp.scoped
    /\ doc.exists
    /\ SingleBuildFailed(events)
    /\ \E i \in SingleBuilds(events) : events[i].raised = "none"

\* the operations that end a build() call of a sequential strategy
SequentialBuilds == {"base_build", "default_build", "build"}

\* C23: in a build() of a sequential strategy no single-definition build follows one that
\* failed and no callback is invoked twice for a definition; what the callbacks of the
\* earlier function definitions built is still in the units' output directories; and when
\* the call has ended, the caller has got the failure of that single-definition build.
C23_FirstFailureAborts ==
    /\ \A i \in SingleBuilds(events) :
           events[i].raised # "none" => \A j \in SingleBuilds(events) : j <= i
    /\ \A i, j \in 1..Len(calls) : calls[i].definition = calls[j].definition => i = j
    /\ \A i \in 1..Len(calls) :
           \E j \in SingleBuilds(events) : events[j].uuid = calls[i].definition
    /\ \A i \in 1..Len(calls) :
           (/\ calls[i].callback = "build_function"
            /\ \E j \in SingleBuilds(events) :
                   events[j].uuid = calls[i].definition /\ events[j].raised = "none") =>
               /\ ArtifactsDir(calls[i].name) \in DOMAIN artifacts
               /\ artifacts[ArtifactsDir(calls[i].name)] = calls[i].output
    /\ lastOp.op \in SequentialBuilds =>
           \A i \in SingleBuilds(events) :
               events[i].raised # "none" => lastOp.exc = events[i].raised

\* the positions in es of the events named event of strategy of
EventsOf(es, event, of) == {i \in EventsNamed(es, event) : es[i].of = of}

\* the strategies a build() of a sequential strategy enters
SequentialStrategies == {"base", "default", "cached", "delegate"}

\* C24: in every build() call of the base, the default and the cached strategy, the
\* strategy, and the delegate of the cached strategy, is entered before the first
\* single-definition build and left after the last one; and when the call is over, with or
\* without a failure of a single-definition build, every strategy that was entered has been
\* left as often as it was entered.
C24_SetupAndTeardown ==
    /\ events # <<>> => events[1].event = "__enter__"
    /\ \A i \in SingleBuilds(events) :
           /\ \E j \in EventsOf(events, "__enter__", events[i].of) : j < i
           /\ \A j \in EventsNamed(events, "__enter__") : j < i
           /\ \A k \in EventsNamed(events, "__exit__") : i < k
    /\ pc = "idle" =>
           \A of \in SequentialStrategies :
               Cardinality(EventsOf(events, "__exit__", of))
                   = Cardinality(EventsOf(events, "__enter__", of))

C24_Witness ==
    /\ lastOp.op = "build"
    /\ SingleBuildFailed(events)
    /\ EventsOf(events, "__exit__", "delegate") # {}
    /\ Cardinality(EventsOf(events, "__exit__", "cached")) = 2

\* the mapping of every unit of the graph to its output directory
UnitDirs(fs, ls) ==
    {<<function.name, <<BuildDir, function.name>>>> :
        function \in UNION {Range(fs[i].functions) : i \in 1..Len(fs)}}
    \cup {<<ls[i].layer.name, <<BuildDir, ls[i].layer.name>>>> : i \in 1..Len(ls)}

C26_BaseStrategyInert ==
    [][lastOp'.op = "base_build" =>
          /\ lastOp'.result = {}
          /\ lastOp'.exc = "none"
          /\ \A i \in 1..Len(fdefs) : BuildSingleDefinition(fdefs[i]) = {}
          /\ \A i \in 1..Len(ldefs) : BuildSingleDefinition(ldefs[i]) = {}
          /\ calls' = <<>>
          /\ <<fdefs', ldefs', doc', cache', artifacts'>> = <<fdefs, ldefs, doc, cache, artifacts>>]_vars

C26_Witness ==
    /\ lastOp.op = "base_build"
    /\ Len(fdefs) >= 1
    /\ Len(ldefs) >= 1

\* the operations that are a single-definition build of the cached strategy
CachedSingleBuilds == {"build_single_function", "build_single_layer"}

\* C27: when the cached strategy comes to a definition that has no cache directory or whose
\* stored checksum is not the checksum of its source, it calls the delegate's
\* single-definition build, which invokes the callback at most once; when that build
\* succeeds the callback was invoked exactly once, the mapping returned is the delegate's,
\* the definition's stored checksum is the current one and the cache directory of the
\* definition holds the output of this invocation and nothing of what it held before.
C27_InvalidCacheRebuilds ==
    [][lastOp'.op \in CachedSingleBuilds =>
          LET function == pc = "functions"
              definition == IF function THEN fdefs[idx] ELSE ldefs[idx]
              after == IF function THEN fdefs'[idx] ELSE ldefs'[idx]
              current == srcHash[definition.codeuri]
              invalid == definition.uuid \notin DOMAIN cache \/ definition.source_md5 # current
              units == IF function THEN UnitNames(definition.functions)
                       ELSE {definition.layer.name}
          IN  invalid =>
                  /\ lastOp'.now.delegated
                  /\ Len(calls') <= Len(calls) + 1
                  /\ \A i \in 1..Len(calls) : calls[i].definition # definition.uuid
                  /\ lastOp'.now.exc = "none" =>
                         /\ Len(calls') = Len(calls) + 1
                         /\ calls'[Len(calls')].definition = definition.uuid
                         /\ lastOp'.result = {<<name, <<BuildDir, name>>>> : name \in units}
                         /\ after.source_md5 = current
                         /\ after.uuid = definition.uuid
                         /\ definition.uuid \in DOMAIN cache'
                         /\ cache'[definition.uuid] = calls'[Len(calls')].output.hash
                         /\ cache'[definition.uuid] = current]_vars

C27_Witness ==
    /\ lastOp.op = "build_single_function"
    /\ lastOp.seen
    /\ lastOp.now.delegated
    /\ lastOp.now.exc = "none"
    /\ lastOp.prev.exc = "none"
    /\ lastOp.now.hash # lastOp.prev.hash

\* C28: when the cached strategy comes to a definition whose cache directory exists and
\* whose stored checksum is the checksum of its source, it calls neither the delegate nor a
\* callback and leaves the stored checksum and the cache directory as they are; for a
\* function definition, and for a layer definition with its layer attached, it copies the
\* cache directory to the output directory of every attached unit, also of a unit attached
\* in this run to a definition read from build.toml, and returns one entry per attached unit.
C28_ValidCacheCopies ==
    [][lastOp'.op \in CachedSingleBuilds =>
          LET function == pc = "functions"
              definition == IF function THEN fdefs[idx] ELSE ldefs[idx]
              current == srcHash[definition.codeuri]
              valid == definition.uuid \in DOMAIN cache /\ definition.source_md5 = current
              units == IF function THEN UnitNames(definition.functions)
                       ELSE IF definition.layer.isNone THEN {}
                       ELSE {definition.layer.name}
          IN  valid =>
                  /\ ~lastOp'.now.delegated
                  /\ calls' = calls
                  /\ cache' = cache
                  /\ <<fdefs', ldefs'>> = <<fdefs, ldefs>>
                  /\ (function \/ ~definition.layer.isNone) =>
                         /\ lastOp'.now.exc = "none"
                         /\ lastOp'.result = {<<name, <<BuildDir, name>>>> : name \in units}
                         /\ Cardinality(lastOp'.result) = Cardinality(units)
                         /\ \A name \in units :
                                /\ <<BuildDir, name>> \in DOMAIN artifacts'
                                /\ artifacts'[<<BuildDir, name>>].uuid = definition.uuid
                                /\ artifacts'[<<BuildDir, name>>].hash = cache[definition.uuid]]_vars

C28_Witness ==
    /\ lastOp.op = "build_single_function"
    /\ ~lastOp.now.delegated
    /\ lastOp.uuid \in restored
    /\ lastOp.result # {}
    /\ \A entry \in lastOp.result : entry[2] \in DOMAIN artifacts

\* C29: a cache directory that a failed cached build left partially written is not taken
\* for a valid cache by a later run on the same source content: the definition read from
\* build.toml is built through the delegate again.
C29_PartialCacheRebuilt ==
    [][lastOp'.op \in CachedSingleBuilds =>
          LET definition == IF pc = "functions" THEN fdefs[idx] ELSE ldefs[idx]
          IN  (/\ definition.uuid \in restored
               /\ definition.uuid \in DOMAIN cache
               /\ cache[definition.uuid] = PartialCopy)
              => lastOp'.now.delegated]_vars

\* the steps of a cached single-definition build that have begun to change the cache
\* directory or the definition and have not ended
TaskMutating == {"rmtree", "set_source_md5", "copytree"}

\* C30: when cached single-definition builds of distinct definitions run concurrently,
\* every step of a task tests, removes, fills and reads the cache directory named by the
\* uuid of its own definition and no other, changes no definition but its own and of that
\* only the checksum, and no other task was scheduled for the same uuid.
C30_TasksKeepToTheirOwn ==
    [][lastOp'.op = "cached_task" =>
          LET own == lastOp'.uuid
          IN  /\ lastOp'.dir = own
              /\ \A u \in (DOMAIN cache \cup DOMAIN cache') \ {own} :
                     /\ u \in DOMAIN cache
                     /\ u \in DOMAIN cache'
                     /\ cache'[u] = cache[u]
              /\ Len(fdefs') = Len(fdefs)
              /\ Len(ldefs') = Len(ldefs)
              /\ \A i \in 1..Len(fdefs) :
                     fdefs'[i] # fdefs[i] =>
                         /\ fdefs[i].uuid = own
                         /\ fdefs'[i] = set_source_md5(fdefs[i], fdefs'[i].source_md5)
              /\ \A i \in 1..Len(ldefs) :
                     ldefs'[i] # ldefs[i] =>
                         /\ ldefs[i].uuid = own
                         /\ ldefs'[i] = set_source_md5(ldefs[i], ldefs'[i].source_md5)
              /\ \A s \in 1..Len(tasks) : s # lastOp'.task => tasks[s].uuid # own]_vars

C30_Witness ==
    /\ lastOp.op = "cached_task"
    /\ lastOp.step = "copytree"
    /\ \E s \in 1..Len(tasks) :
           /\ s # lastOp.task
           /\ tasks[s].at \in TaskMutating

\* no function is attached to two definitions of defs
UnitsDisjoint(defs) ==
    \A i, j \in 1..Len(defs) :
        i # j => Range(defs[i].functions) \cap Range(defs[j].functions) = {}

\* the (definition, function) attachments of defs
Attached(defs) ==
    {<<defs[i].uuid, function>> : i \in 1..Len(defs), function \in Functions} \cap
    UNION {{<<defs[i].uuid, function>> : function \in Range(defs[i].functions)} :
              i \in 1..Len(defs)}

\* C31 as stated: after any sequence of put_function_build_definition calls no function is
\* attached to two different function definitions of the graph.
C31_UnitsDisjoint == UnitsDisjoint(fdefs)

\* C31 as amended: a put of a function that is attached to no definition of the graph
\* attaches it to exactly one definition and keeps the attached functions of distinct
\* definitions disjoint, and no other operation of the graph attaches a function.
C31_PutOnceKeepsUnitsDisjoint ==
    [][/\ (/\ lastOp'.op = "put_function"
            /\ \A i \in 1..Len(fdefs) : lastOp'.function \notin Range(fdefs[i].functions))
           => /\ (UnitsDisjoint(fdefs) => UnitsDisjoint(fdefs'))
              /\ Cardinality({i \in 1..Len(fdefs') :
                                 lastOp'.function \in Range(fdefs'[i].functions)}) = 1
        /\ (lastOp'.op # "put_function" => Attached(fdefs') \subseteq Attached(fdefs))]_vars

C31_Witness ==
    /\ lastOp.op = "put_function"
    /\ Len(fdefs) = 2
    /\ UnitsDisjoint(fdefs)
    /\ fdefs[1].functions # <<>>
    /\ fdefs[2].functions # <<>>
    /\ fdefs[1].functions # fdefs[2].functions

\* the (uuid, checksum) pairs of the definitions of defs
Identifiers(defs) == {<<defs[i].uuid, defs[i].source_md5>> : i \in 1..Len(defs)}

\* the puts that attached the functions of defs: (runtime, codeuri, metadata) and function
FunctionPuts(defs) ==
    UNION {{<<defs[i].runtime, defs[i].codeuri, defs[i].metadata, function>> :
               function \in Range(defs[i].functions)} : i \in 1..Len(defs)}

\* the puts that attached the layers of defs
LayerPuts(defs) ==
    {<<defs[i].name, defs[i].codeuri, defs[i].build_method, defs[i].compatible_runtimes,
       defs[i].layer>> : i \in {j \in 1..Len(defs) : ~defs[j].layer.isNone}}

\* no definition of defs with a function uses the makefile build method
NoMakefile(defs) ==
    \A i \in 1..Len(defs) :
        defs[i].functions # <<>> => <<"BuildMethod", "makefile">> \notin defs[i].metadata

\* the graph that is pruned and written was read from the document of the write before,
\* the puts of that run were replayed on it and no checksum of it was changed
SameRunReplayed(was, graph) ==
    /\ was.done
    /\ restored = Range(MapUuid(was.fdefs)) \cup Range(MapUuid(was.ldefs))
    /\ NoMakefile(was.fdefs)
    /\ NoMakefile(graph.fdefs)
    /\ FunctionPuts(graph.fdefs) = FunctionPuts(was.fdefs)
    /\ LayerPuts(graph.ldefs) = LayerPuts(was.ldefs)
    /\ \A i \in 1..Len(graph.fdefs) :
           graph.fdefs[i].uuid \in restored =>
               <<graph.fdefs[i].uuid, graph.fdefs[i].source_md5>> \in Identifiers(was.fdefs)
    /\ \A i \in 1..Len(graph.ldefs) :
           graph.ldefs[i].uuid \in restored =>
               <<graph.ldefs[i].uuid, graph.ldefs[i].source_md5>> \in Identifiers(was.ldefs)

\* C32: when the puts of the previous run, none of them with the makefile build method,
\* are replayed on the graph read from the document that run wrote, pruning and writing
\* gives the identifiers and checksums of the previous run: none new, none dropped.
C32_RerunIdempotent ==
    (lastOp.op = "clean" /\ SameRunReplayed(lastOp.was, lastOp.puts)) =>
        /\ Identifiers(written.fdefs) = Identifiers(lastOp.was.fdefs)
        /\ Identifiers(written.ldefs) = Identifiers(lastOp.was.ldefs)
        /\ Identifiers(_read(doc).fdefs) = Identifiers(lastOp.was.fdefs)
        /\ Identifiers(_read(doc).ldefs) = Identifiers(lastOp.was.ldefs)

C32_Witness ==
    /\ lastOp.op = "clean"
    /\ SameRunReplayed(lastOp.was, lastOp.puts)
    /\ runs >= 2
    /\ putLog # {}
    /\ \E i \in 1..Len(written.fdefs) : written.fdefs[i].source_md5 # ""

\* the function definitions of defs that use the makefile build method
MakefileDefinitions(defs) ==
    {defs[i] : i \in {j \in 1..Len(defs) : <<"BuildMethod", "makefile">> \in defs[j].metadata}}

\* C33: a makefile function definition with a function attached carries an identifier the
\* run did not read from build.toml, and the cached strategy builds it through the delegate
\* the first time it comes to it in a run; when a build() of the whole template has ended,
\* the makefile definitions the run read from build.toml are in neither the graph nor
\* build.toml, and no cache directory is left under an identifier read from build.toml
\* that the graph no longer holds.
C33_MakefileNeverReusesCache ==
    /\ (/\ lastOp.op = "build_single_function"
        /\ lastOp.now.first
        /\ \E d \in MakefileDefinitions(fdefs) : d.uuid = lastOp.uuid /\ d.functions # <<>>)
       => (lastOp.uuid \notin restored /\ lastOp.now.delegated)
    /\ (lastOp.op = "build" /\ ~lastOp.scoped) =>
           /\ \A d \in MakefileDefinitions(_read(doc).fdefs) : d.uuid \notin restored
           /\ \A d \in MakefileDefinitions(fdefs) : d.uuid \notin restored
           /\ \A u \in DOMAIN cache \cap restored :
                  u \in Range(MapUuid(fdefs)) \cup Range(MapUuid(ldefs))

\* C34: when the delegate's single-definition build raises on the invalid-cache path of the
\* cached strategy, the exception goes on, the stored checksum of every definition and every
\* cache directory are what they were before the call, and the cache of the definition is
\* still invalid for the checksum of its source.
C34_FailedBuildKeepsCache ==
    [][(lastOp'.op \in CachedSingleBuilds /\ lastOp'.now.delegated /\ lastOp'.now.exc # "none") =>
          LET definition == IF pc = "functions" THEN fdefs[idx] ELSE ldefs[idx]
              after == IF pc = "functions" THEN fdefs'[idx] ELSE ldefs'[idx]
              current == srcHash[definition.codeuri]
          IN  /\ exc' = lastOp'.now.exc
              /\ fdefs' = fdefs
              /\ ldefs' = ldefs
              /\ cache' = cache
              /\ after.uuid \notin DOMAIN cache' \/ after.source_md5 # current]_vars

C34_Witness ==
    /\ lastOp.op \in CachedSingleBuilds
    /\ lastOp.now.delegated
    /\ lastOp.now.exc \in {"BuildFunctionError", "BuildLayerError"}
    /\ lastOp.uuid \in DOMAIN cache
    /\ lastOp.seen
    /\ lastOp.prev.exc = "none"

\* C35: when a build() call of the cached strategy is over, the teardown of the cached
\* strategy has run exactly once, after every single-definition build of the call, and the
\* delegate has been entered exactly once and left exactly once.
C35_TeardownOnce ==
    lastOp.op = "build" =>
        /\ Cardinality(EventsOf(events, "__exit__", "cached")) = 1
        /\ \A i \in SingleBuilds(events) :
               \A k \in EventsOf(events, "__exit__", "cached") : i < k
        /\ Cardinality(EventsOf(events, "__enter__", "delegate")) = 1
        /\ Cardinality(EventsOf(events, "__exit__", "delegate")) = 1

\* the identifiers of fs that are in keep, in the order of fs
RECURSIVE KeptUuids(_, _)
KeptUuids(fs, keep) ==
    IF fs = <<>> THEN <<>>
    ELSE (IF Head(fs).uuid \in keep THEN <<Head(fs).uuid>> ELSE <<>>) \o KeptUuids(Tail(fs), keep)

\* C36: after construction, after every put and after every prune the identifiers of the
\* function and layer definitions of the graph are pairwise distinct; a put leaves every
\* definition of the graph at its place under its identifier, and a prune leaves the
\* definitions it keeps under their identifiers.
C36_IdentifiersDistinctAndStable ==
    [][/\ Cardinality(Range(MapUuid(fdefs')) \cup Range(MapUuid(ldefs')))
              = Len(fdefs') + Len(ldefs')
       /\ lastOp'.op \in {"put_function", "put_layer"} =>
              /\ Len(fdefs') >= Len(fdefs)
              /\ Len(ldefs') >= Len(ldefs)
              /\ \A i \in 1..Len(fdefs) : fdefs'[i].uuid = fdefs[i].uuid
              /\ \A i \in 1..Len(ldefs) : ldefs'[i].uuid = ldefs[i].uuid
       /\ lastOp'.op = "clean" =>
              /\ MapUuid(fdefs') = KeptUuids(fdefs, Range(MapUuid(fdefs')))
              /\ MapUuid(ldefs') = KeptUuids(ldefs, Range(MapUuid(ldefs')))
              /\ Range(fdefs') \subseteq Range(fdefs)
              /\ Range(ldefs') \subseteq Range(ldefs)
       /\ (lastOp'.op = "__init__" /\ lastOp'.raised = "none") =>
              /\ MapUuid(fdefs') = MapUuid(_read(doc).fdefs)
              /\ MapUuid(ldefs') = MapUuid(_read(doc).ldefs)]_vars

C36_Witness ==
    /\ lastOp.op \in {"put_function", "put_layer"}
    /\ runs >= 2
    /\ restored # {}
    /\ restored \subseteq Range(MapUuid(fdefs)) \cup Range(MapUuid(ldefs))
    /\ \/ \E i \in 1..Len(fdefs) : fdefs[i].uuid \notin restored
       \/ \E i \in 1..Len(ldefs) : ldefs[i].uuid \notin restored

\* the context calls of execute_infra_sync, in the order of its statements
InfraSyncOrder == <<"set_up", "build", "package", "compare", "deploy">>

\* the deploy step of the running or last execute_infra_sync() was called
DeployCalled == Len(infra.steps) = Len(InfraSyncOrder)

\* C37: execute_infra_sync runs build set-up, build, package, the comparison and deploy in
\* that order, each only after the one before it has returned; deploy is called if and only
\* if the comparison returned False (the packaged template differs from the deployed one,
\* or the stack does not exist), so never before package has completed; and the method
\* returns True exactly when deploy ran to its end, False exactly when the comparison
\* returned True.
C37_InfraSyncOrder ==
    infra.pc # "none" =>
        /\ Len(infra.steps) <= Len(InfraSyncOrder)
        /\ \A i \in 1..Len(infra.steps) :
            /\ infra.steps[i].call = InfraSyncOrder[i]
            /\ i < Len(infra.steps) => ~infra.steps[i].raised
        /\ DeployCalled => infra.compared = "False"
        /\ (infra.pc \in {"returned", "raised"} /\ infra.compared = "False") => DeployCalled
        /\ infra.returned = "True" <=> (DeployCalled /\ ~infra.steps[Len(InfraSyncOrder)].raised)
        /\ infra.returned = "False" <=> infra.compared = "True"
        /\ infra.pc = "returned" <=> infra.returned # "none"

\* a call that deployed over an existing stack whose template differs only outside CodeUri,
\* and returned True
C37_Witness ==
    /\ infra.pc = "returned"
    /\ infra.returned = "True"
    /\ StackName \in DOMAIN infra.world.deployed
    /\ DOMAIN infra.world.deployed[StackName] = DOMAIN infra.world.local[OutputTemplateFile]
    /\ infra.world.deployed[StackName]["Fn"].Type = infra.world.local[OutputTemplateFile]["Fn"].Type

\* C38: the wrapped command is the first thing a wrapped call runs and the call returns the
\* command's return value unchanged; when a step of the version check that follows fails
\* (constructing or reading the global configuration, comparing the last check time, the
\* PyPI call, updating the last check time) the call still returns that value, and the only
\* exception that leaves the call is the command's own.
C38_VersionCheckNeverFails ==
    versionCheck.pc # "none" =>
        /\ versionCheck.log[1].call = "func"
        /\ \A i \in 2..Len(versionCheck.log) : versionCheck.log[i].call # "func"
        /\ versionCheck.pc = "raised" => versionCheck.log = <<[call |-> "func", raised |-> TRUE]>>
        /\ versionCheck.log[1].raised => versionCheck.pc = "raised"
        /\ versionCheck.pc = "returned" <=> versionCheck.returned # "none"
        /\ versionCheck.returned # "none" => versionCheck.returned = versionCheck.actual_result
        /\ versionCheck.pc \notin {"raised", "returned"} => versionCheck.actual_result \in CommandResults

\* a call that returned the command's value although the PyPI call and the update of the
\* last check time both failed
C38_Witness ==
    /\ versionCheck.pc = "returned"
    /\ versionCheck.returned = "1"
    /\ \E i, j \in 1..Len(versionCheck.log) :
        /\ versionCheck.log[i] = [call |-> "compare_current_version", raised |-> TRUE]
        /\ versionCheck.log[j] = [call |-> "update_last_check_time", raised |-> TRUE]

\* the parameter key = value of a command's section was in the file the samconfig object
\* was constructed over, or was stored there by put()
StoredOrRead(cmd_name_key, key, value) ==
    \/ /\ cmd_name_key \in DOMAIN samconfig.origin.tables
       /\ key \in DOMAIN samconfig.origin.tables[cmd_name_key]
       /\ samconfig.origin.tables[cmd_name_key][key] = value
    \/ <<cmd_name_key, key, value>> \in samconfig.stored

\* C39: get_all leaves the in-memory document as it was after reading it; the mapping it
\* returns for a command holds only that command's parameters and the global parameters,
\* whatever commands get_all was called for before; and a flush() writes no parameter into
\* a section that was neither read from the file into that section nor stored there by
\* put().
C39_GetAllReadOnly ==
    samconfig.pc = "ready" =>
        /\ (samconfig.op.call = "get_all" /\ samconfig.op.raised = "none") =>
            /\ samconfig.document = samconfig.op.before
            /\ \A key \in DOMAIN samconfig.op.returned :
                \/ StoredOrRead(samconfig.op.key, key, samconfig.op.returned[key])
                \/ StoredOrRead(GlobalKey, key, samconfig.op.returned[key])
        /\ (samconfig.op.call = "flush" /\ samconfig.op.wrote) =>
            \A cmd_name_key \in DOMAIN samconfig.file.tables :
                \A key \in DOMAIN samconfig.file.tables[cmd_name_key] :
                    StoredOrRead(cmd_name_key, key, samconfig.file.tables[cmd_name_key][key])

====
